---- MODULE Spec2Model ----
(***************************************************************************)
(* Job pipeline of the audio extraction service (src/extraction) and of    *)
(* the recipe extraction variant (src/recipe-extraction).                  *)
(*                                                                         *)
(* The record store (Supabase tables), the work queue and the scratch      *)
(* directories are the shared state; every worker process runs             *)
(* process_audio_job one external call at a time, so each call of the      *)
(* orchestrator is one action and a worker's position in the function is   *)
(* its pc.  Every external call either returns or raises.                  *)
(***************************************************************************)
EXTENDS Naturals, Sequences, FiniteSets, TLC

\* ---------------------------------------------------------------- bounds
MaxJobs == 2        \* jobs and recipes submitted, both pipelines together
MaxRuns == 2        \* invocations of the orchestrators, all jobs together
NumWorkers == 1     \* worker processes pulling from the queue
MaxFaults == 2      \* external calls that raise, over a whole behaviour

JobIds == 1..MaxJobs
Workers == 1..NumWorkers

\* Optional[str]: None is the empty sequence, a string s is <<s>>.
None == <<>>
Some(s) == <<s>>

\* Python truthiness of an Optional[str] (`if error_message:`).
Truthy(o) == o # None /\ o[1] # ""

\* ------------------------------------------------------------ JobStatus
PENDING == "pending"
DOWNLOADING == "downloading"
EXTRACTING_AUDIO == "extracting_audio"
UPLOADING == "uploading"
TRANSCRIBING == "transcribing"
ANALYZING == "analyzing"
GENERATING_EMBEDDINGS == "generating_embeddings"
STORING == "storing"
COMPLETED == "completed"
FAILED == "failed"

\* The members of the JobStatus enum in declaration order.
JobStatus == <<PENDING, DOWNLOADING, EXTRACTING_AUDIO, UPLOADING, TRANSCRIBING,
               ANALYZING, GENERATING_EMBEDDINGS, STORING, COMPLETED, FAILED>>

\* ------------------------------------------------------------- platform
\* Python values that reach the URL functions: a str, None, or an int.  A
\* str is a sequence of tokens; a token is a run of characters that the
\* patterns of platform_detector.py and of the handlers treat as a unit.
Str(tokens) == [type |-> "str", s |-> tokens]
PyNone == [type |-> "NoneType"]
PyInt(n) == [type |-> "int", n |-> n]

isinstance_str(v) == v.type = "str"

\* Python truthiness (`if not url`).
PyTruthy(v) ==
    CASE v.type = "str" -> v.s # <<>>
      [] v.type = "NoneType" -> FALSE
      [] v.type = "int" -> v.n # 0

\* str.lower, token by token.
LowerToken(t) ==
    CASE t = "INSTAGRAM.COM/" -> "instagram.com/"
      [] t = "ABC12345" -> "abc12345"
      [] OTHER -> t

lower(s) == [i \in 1..Len(s) |-> LowerToken(s[i])]

\* str.strip: leading and trailing whitespace removed.
RECURSIVE lstrip(_)
lstrip(s) == IF s # <<>> /\ Head(s) = " " THEN lstrip(Tail(s)) ELSE s

RECURSIVE rstrip(_, _)
rstrip(s, ch) ==
    IF s # <<>> /\ s[Len(s)] = ch THEN rstrip(SubSeq(s, 1, Len(s) - 1), ch) ELSE s

strip(s) == rstrip(lstrip(s), " ")

\* re.search(pattern, s) for a pattern of literals: the pattern is a
\* sequence of token sets, matched against consecutive tokens.  A set holds
\* every token that the literal can match at that place (vm. ends in m.).
MatchAt(pattern, s, i) ==
    /\ i + Len(pattern) - 1 <= Len(s)
    /\ \A k \in 1..Len(pattern) : s[i + k - 1] \in pattern[k]

re_search(pattern, s) == \E i \in 1..Len(s) : MatchAt(pattern, s, i)

\* The Platform enum.
INSTAGRAM == "instagram"
TIKTOK == "tiktok"
YOUTUBE == "youtube"
FACEBOOK == "facebook"
UNKNOWN == "unknown"
Platform == {INSTAGRAM, TIKTOK, YOUTUBE, FACEBOOK, UNKNOWN}

instagram_patterns ==
    {<<{"instagram.com/"}, {"reel/"}>>,
     <<{"instagram.com/"}, {"reels/"}>>,
     <<{"instagram.com/"}, {"p/"}>>}

tiktok_patterns ==
    {<<{"tiktok.com/"}, {"@user/"}, {"video/"}>>,
     <<{"vm."}, {"tiktok.com/"}>>,
     <<{"vt."}, {"tiktok.com/"}>>,
     <<{"tiktok.com/"}, {"t/"}>>}

youtube_patterns ==
    {<<{"youtube.com/"}, {"shorts/"}>>,
     <<{"youtu.be/"}>>}

facebook_patterns ==
    {<<{"facebook.com/"}, {"reel/"}>>,
     <<{"facebook.com/"}, {"reels/"}>>,
     <<{"facebook.com/"}, {"watch/"}>>,
     <<{"fb.watch/"}>>,
     <<{"m.", "vm."}, {"facebook.com/"}, {"story.php"}>>}

\* Variant of detect_platform that takes a URL of no platform for a Reel.
detect_platform_guesses(url) ==
    IF ~PyTruthy(url) \/ ~isinstance_str(url) THEN UNKNOWN
    ELSE LET u == lower(strip(url.s)) IN
         IF \E p \in tiktok_patterns : re_search(p, u) THEN TIKTOK
         ELSE IF \E p \in youtube_patterns : re_search(p, u) THEN YOUTUBE
         ELSE IF \E p \in facebook_patterns : re_search(p, u) THEN FACEBOOK
         ELSE INSTAGRAM

\* detect_platform: UNKNOWN for a falsy or non-str argument; otherwise the
\* first platform, in the order of the code, one of whose patterns is found
\* in the stripped, lower-cased URL.
detect_platform(url) ==
    IF ~PyTruthy(url) \/ ~isinstance_str(url) THEN UNKNOWN
    ELSE LET u == lower(strip(url.s)) IN
         IF \E p \in instagram_patterns : re_search(p, u) THEN INSTAGRAM
         ELSE IF \E p \in tiktok_patterns : re_search(p, u) THEN TIKTOK
         ELSE IF \E p \in youtube_patterns : re_search(p, u) THEN YOUTUBE
         ELSE IF \E p \in facebook_patterns : re_search(p, u) THEN FACEBOOK
         ELSE UNKNOWN

\* ------------------------------------------- url_parser.py and handlers
\* Leading characters of a token that are word characters ([A-Za-z0-9_-]
\* and \w agree on the tokens used), and whether the whole token is one.
WordLen(t) ==
    CASE t \in {"@user/", "@user", "?v=", "/", " "} -> 0
      [] t \in {"m.", "p/", "p", "t/", "t"} -> 1
      [] t \in {"vm.", "vt.", "fb.watch/", "fb.watch", "ab"} -> 2
      [] t \in {"www.", "123"} -> 3
      [] t \in {"reel/", "reel"} -> 4
      [] t \in {"https://", "https:", "youtu.be/", "youtu.be", "reels/",
                "reels", "video/", "video", "watch/", "watch", "watch?v=",
                "story.php", "video.mp4"} -> 5
      [] t \in {"tiktok.com/", "tiktok.com", "shorts/", "shorts"} -> 6
      [] t \in {"youtube.com/", "youtube.com", "example.com/", "example.com"} -> 7
      [] t \in {"facebook.com/", "facebook.com", "ABC12345", "abc12345"} -> 8
      [] OTHER -> 9

AllWord(t) ==
    t \in {"ABC12345", "abc12345", "ab", "123", "watch", "reel", "reels", "p",
           "video", "shorts", "t"}

DigitLen(t) == IF t = "123" THEN 3 ELSE 0

AllDigit(t) == t = "123"

\* Length of the longest run of word characters (of digits) that starts at
\* token i: what `[\w-]+` (`\d+`) consumes there.
RECURSIVE WordRun(_, _)
WordRun(s, i) ==
    IF i > Len(s) THEN 0
    ELSE IF AllWord(s[i]) THEN WordLen(s[i]) + WordRun(s, i + 1)
    ELSE WordLen(s[i])

RECURSIVE DigitRun(_, _)
DigitRun(s, i) ==
    IF i > Len(s) THEN 0
    ELSE IF AllDigit(s[i]) THEN DigitLen(s[i]) + DigitRun(s, i + 1)
    ELSE DigitLen(s[i])

\* re.search for literals followed by `[\w-]+` or by `\d+`.
re_search_word(pattern, s) ==
    \E i \in 1..Len(s) : MatchAt(pattern, s, i) /\ WordRun(s, i + Len(pattern)) >= 1

re_search_digits(pattern, s) ==
    \E i \in 1..Len(s) : MatchAt(pattern, s, i) /\ DigitRun(s, i + Len(pattern)) >= 1

\* A token without its trailing slashes.
Unslash(t) ==
    CASE t = "https://" -> "https:"
      [] t = "instagram.com/" -> "instagram.com"
      [] t = "INSTAGRAM.COM/" -> "INSTAGRAM.COM"
      [] t = "tiktok.com/" -> "tiktok.com"
      [] t = "youtube.com/" -> "youtube.com"
      [] t = "youtu.be/" -> "youtu.be"
      [] t = "facebook.com/" -> "facebook.com"
      [] t = "fb.watch/" -> "fb.watch"
      [] t = "example.com/" -> "example.com"
      [] t = "reel/" -> "reel"
      [] t = "reels/" -> "reels"
      [] t = "p/" -> "p"
      [] t = "@user/" -> "@user"
      [] t = "video/" -> "video"
      [] t = "shorts/" -> "shorts"
      [] t = "watch/" -> "watch"
      [] t = "t/" -> "t"
      [] OTHER -> t

\* url.rstrip('/')
rstrip_slash(s) ==
    LET r == rstrip(s, "/") IN
    IF r = <<>> THEN r ELSE [r EXCEPT ![Len(r)] = Unslash(@)]

\* url.split('?')[0]: what precedes the first question mark.
RECURSIVE before_query(_)
before_query(s) ==
    IF s = <<>> THEN s
    ELSE IF Head(s) = "?v=" THEN <<>>
    ELSE IF Head(s) = "watch?v=" THEN <<"watch">>
    ELSE <<Head(s)>> \o before_query(Tail(s))

\* The patterns of extract_reel_id in the order they are tried.
reel_patterns ==
    <<<<{"instagram.com/"}, {"reels/"}>>,
      <<{"instagram.com/"}, {"reel/"}>>,
      <<{"instagram.com/"}, {"p/"}>>>>

\* len(match.group(1)) of the leftmost match of a pattern, 0 without match.
ReelIdLen(pattern, s) ==
    LET M == {i \in 1..Len(s) :
                MatchAt(pattern, s, i) /\ WordRun(s, i + Len(pattern)) >= 1}
    IN IF M = {} THEN 0
       ELSE WordRun(s, (CHOOSE i \in M : \A k \in M : i <= k) + Len(pattern))

\* validate_reel_url: extract_reel_id returns (TRUE) or raises ValueError.
validate_reel_url(url) ==
    /\ PyTruthy(url)
    /\ isinstance_str(url)
    /\ LET u == rstrip_slash(before_query(rstrip_slash(strip(url.s)))) IN
       \E k \in 1..Len(reel_patterns) : ReelIdLen(reel_patterns[k], u) >= 5

\* TikTokHandler.validate_url
tiktok_validate_url(url) ==
    /\ PyTruthy(url)
    /\ isinstance_str(url)
    /\ LET u == lower(strip(url.s)) IN
       \/ re_search_digits(<<{"tiktok.com/"}, {"@user/"}, {"video/"}>>, u)
       \/ re_search_word(<<{"vm."}, {"tiktok.com/"}>>, u)
       \/ re_search_word(<<{"vt."}, {"tiktok.com/"}>>, u)
       \/ re_search_word(<<{"tiktok.com/"}, {"t/"}>>, u)

\* YouTubeHandler.validate_url
youtube_validate_url(url) ==
    /\ PyTruthy(url)
    /\ isinstance_str(url)
    /\ LET u == lower(strip(url.s)) IN
       \/ re_search_word(<<{"youtube.com/"}, {"shorts/"}>>, u)
       \/ re_search_word(<<{"youtu.be/"}>>, u)
       \/ re_search_word(<<{"youtube.com/"}, {"watch?v="}>>, u)

\* FacebookHandler.validate_url
facebook_validate_url(url) ==
    /\ PyTruthy(url)
    /\ isinstance_str(url)
    /\ LET u == lower(strip(url.s)) IN
       \/ re_search_word(<<{"facebook.com/"}, {"reel/"}>>, u)
       \/ re_search_word(<<{"facebook.com/"}, {"reels/"}>>, u)
       \/ re_search_digits(<<{"facebook.com/"}, {"watch/"}, {"?v="}>>, u)
       \/ re_search_word(<<{"fb.watch/"}>>, u)
       \/ re_search(<<{"m.", "vm."}, {"facebook.com/"}, {"story.php"}>>, u)

\* handler.validate_url(url) of the handler registered for a platform tag.
validate_url(platform, url) ==
    CASE platform = INSTAGRAM -> validate_reel_url(url)
      [] platform = TIKTOK -> tiktok_validate_url(url)
      [] platform = YOUTUBE -> youtube_validate_url(url)
      [] platform = FACEBOOK -> facebook_validate_url(url)

\* Variant of handlers that registers no handler for Facebook.
handlers_without_facebook ==
    [p \in {INSTAGRAM, TIKTOK, YOUTUBE} |->
        CASE p = INSTAGRAM -> "InstagramHandler"
          [] p = TIKTOK -> "TikTokHandler"
          [] p = YOUTUBE -> "YouTubeHandler"]

\* PlatformRouter.__init__: the handlers dict, keyed by platform tag.
handlers ==
    [p \in {INSTAGRAM, TIKTOK, YOUTUBE, FACEBOOK} |->
        CASE p = INSTAGRAM -> "InstagramHandler"
          [] p = TIKTOK -> "TikTokHandler"
          [] p = YOUTUBE -> "YouTubeHandler"
          [] p = FACEBOOK -> "FacebookHandler"]

\* PlatformRouter.get_handler: the handler, or the ValueError raised.
get_handler(url) ==
    LET platform == detect_platform(url) IN
    IF platform = UNKNOWN
    THEN [raises |-> "Unsupported platform"]
    ELSE IF platform \notin DOMAIN handlers
    THEN [raises |-> "Handler not available for platform"]
    ELSE [handler |-> handlers[platform]]

\* handler.get_platform_name() of each registered handler.
get_platform_name(handler) ==
    CASE handler = "InstagramHandler" -> "Instagram"
      [] handler = "TikTokHandler" -> "TikTok"
      [] handler = "YouTubeHandler" -> "YouTube"
      [] handler = "FacebookHandler" -> "Facebook"

\* handler.validate_url(url), by the handler object it is called on.
handler_validate_url(handler, url) ==
    CASE handler = "InstagramHandler" -> validate_reel_url(url)
      [] handler = "TikTokHandler" -> tiktok_validate_url(url)
      [] handler = "YouTubeHandler" -> youtube_validate_url(url)
      [] handler = "FacebookHandler" -> facebook_validate_url(url)

\* Variant of fetch_metadata that delegates without validating.
router_fetch_metadata_unvalidated(url) ==
    LET h == get_handler(url) IN
    IF "raises" \in DOMAIN h
    THEN [raises |-> h.raises, platform_name |-> "", delegated |-> <<>>]
    ELSE [raises |-> "", platform_name |-> get_platform_name(h.handler),
          delegated |-> <<h.handler>>]

\* PlatformRouter.fetch_metadata: the ValueError raised (with the platform
\* name its message carries), or the handler whose fetch_metadata is called.
router_fetch_metadata(url) ==
    LET h == get_handler(url) IN
    IF "raises" \in DOMAIN h
    THEN [raises |-> h.raises, platform_name |-> "", delegated |-> <<>>]
    ELSE LET handler == h.handler
             platform_name == get_platform_name(handler)
         IN  IF ~handler_validate_url(handler, url)
             THEN [raises |-> "Invalid URL", platform_name |-> platform_name,
                   delegated |-> <<>>]
             ELSE [raises |-> "", platform_name |-> platform_name,
                   delegated |-> <<handler>>]

\* The URLs submitted: a Reel URL, a URL of no platform, and a URL that
\* detect_platform takes for Instagram although its shortcode is too short
\* for validate_reel_url.
InstagramUrl == Str(<<"https://", "instagram.com/", "reel/", "ABC12345", "/">>)
OtherUrl == Str(<<"https://", "example.com/", "video.mp4">>)
InvalidReelUrl == Str(<<"https://", "instagram.com/", "reel/", "ab">>)
Urls == {InstagramUrl, OtherUrl, InvalidReelUrl}

\* The empty str.
EmptyStr == Str(<<>>)

\* ---------------------------------------------------------------- state
VARIABLES
    audio_jobs,       \* table audio_jobs: job id -> row
    audio_files,      \* table audio_files: set of rows [id, job_id]
    thumbnails,       \* table thumbnails: set of rows [id, job_id]
    transcriptions,   \* table transcriptions: set of rows [id, audio_file_id]
    analyses,         \* table analyses: set of rows [id, audio_file_id]
    embeddings,       \* table embeddings: set of rows [id, audio_file_id]
    storage,          \* objects in the storage buckets: [bucket, path]
    queue,            \* the RQ queue: sequence of [job_id, url]
    worker,           \* per worker process: position and locals of process_audio_job
    scratch,          \* temporary directories that exist, named by their owner
    runs,             \* history: invocations of process_audio_job started per job id
    faults,           \* history: external calls that raised so far
    recipes,          \* table recipes: recipe id -> row
    ingredients,      \* table ingredients: set of rows [id, recipe_id]
    instructions,     \* table instructions: set of rows [id, recipe_id]
    recipe_queue,     \* the Redis list recipe-extraction-jobs
    recipe_worker,    \* the recipe worker: position and locals
    probe,            \* a caller of detect_platform and get_handler: argument and results
    call,             \* a caller of one handler or storage function: arguments and result
    running           \* recipe_worker.py's global flag `running`

tables == <<audio_files, thumbnails, transcriptions, analyses, embeddings>>
rvars == <<recipes, ingredients, instructions, recipe_queue, recipe_worker>>
avars == <<audio_jobs, audio_files, thumbnails, transcriptions, analyses,
           embeddings, queue, worker, runs>>
vars == <<audio_jobs, audio_files, thumbnails, transcriptions, analyses,
          embeddings, storage, queue, worker, scratch, runs, faults, recipes,
          ingredients, instructions, recipe_queue, recipe_worker, probe, call,
          running>>

\* Values of locals that are not bound yet.
NoPath == [job_id |-> 0, ext |-> ""]

NoRef == [scheme |-> "", bucket |-> "", path |-> NoPath]

NoTranscript == [text |-> "", language |-> None]

NoAnalysis == [summary |-> "", topics |-> <<>>, sentiment |-> "", category |-> ""]

\* No call of detect_platform or get_handler was made.
NoCall == [fn |-> "", result |-> <<>>]

NoProbe == [url |-> PyNone, tags |-> <<>>, got |-> <<>>, fetched |-> <<>>]

\* Locals of a worker that runs no job.
IdleWorker ==
    [pc |-> "idle", job_id |-> 0, url |-> EmptyStr, e |-> None, raised |-> FALSE,
     thumbnail_bytes |-> FALSE, thumbnail_url |-> NoRef,
     audio_url |-> NoRef, audio_file_path |-> NoPath, audio_file_id |-> 0,
     transcript_data |-> NoTranscript, analysis_response |-> "",
     analysis_data |-> NoAnalysis,
     failed_at |-> "", thumb_failed |-> FALSE]

\* Locals of the recipe worker between two queue items.
IdleRecipeWorker ==
    [pc |-> "idle", recipe_id |-> 0, url |-> EmptyStr, e |-> None,
     thumbnail_bytes |-> FALSE, failed_at |-> "",
     n_ingredients |-> 0, n_instructions |-> 0]

Init ==
    /\ audio_jobs = <<>>
    /\ audio_files = {}
    /\ thumbnails = {}
    /\ transcriptions = {}
    /\ analyses = {}
    /\ embeddings = {}
    /\ storage = {}
    /\ queue = <<>>
    /\ worker = [w \in Workers |-> IdleWorker]
    /\ scratch = {}
    /\ runs = [j \in JobIds |-> 0]
    /\ faults = 0
    /\ recipes = <<>>
    /\ ingredients = {}
    /\ instructions = {}
    /\ recipe_queue = <<>>
    /\ recipe_worker = IdleRecipeWorker
    /\ probe = NoProbe
    /\ call = NoCall
    /\ running = TRUE


\* An external call raises (the store, the queue, a platform, a service or
\* the file system is unavailable) or a service answers out of form; the
\* number of such failures is bounded.
Fault == faults < MaxFaults /\ faults' = faults + 1

NoFault == UNCHANGED faults

\* ------------------------------------------- supabase_client.py (storage)
SUPABASE_AUDIO_BUCKET == "temp-audio"
SUPABASE_THUMBNAIL_BUCKET == "thumbnails"

\* upload_file_to_bucket's return value: the public URL of the object, or
\* the reference supabase://bucket/path for a private bucket.
upload_file_to_bucket(bucket_name, file_path, is_public) ==
    [scheme |-> IF is_public THEN "https" ELSE "supabase",
     bucket |-> bucket_name, path |-> file_path]

\* The object name f"{job_id}_{timestamp}.mp3"; the timestamp is left out
\* (uploads are upserts, and only runs of one job can meet on a name).
upload_audio_file(job_id) ==
    LET file_path == [job_id |-> job_id, ext |-> ".mp3"] IN
    [storage_ref |-> upload_file_to_bucket(SUPABASE_AUDIO_BUCKET, file_path, FALSE),
     file_path |-> file_path]

upload_thumbnail(job_id) ==
    upload_file_to_bucket(SUPABASE_THUMBNAIL_BUCKET,
                          [job_id |-> job_id, ext |-> ".jpg"], TRUE)

\* The object a successful upload leaves in its bucket.
StoredObject(ref) == [bucket |-> ref.bucket, path |-> ref.path]

\* get_public_url: the public URL for the thumbnail bucket.  For any other
\* bucket no return statement is reached (the signed-URL return follows the
\* first return inside the `if`), so the call returns None.
get_public_url(bucket_name, file_path) ==
    IF bucket_name = SUPABASE_THUMBNAIL_BUCKET
    THEN Some([scheme |-> "https", bucket |-> bucket_name, path |-> file_path])
    ELSE None

\* ------------------------------------------------- job_models.py (store)
\* uuid4(): an id no row of the table has; rows are never deleted, so the
\* row count plus one is fresh.
NewId(table) == Cardinality(table) + 1

\* create_job: insert a row with status PENDING; the new id is returned.
create_job(url, platform) ==
    Append(audio_jobs,
           [url |-> url, status |-> PENDING, platform |-> platform,
            error_message |-> None, metadata_json |-> FALSE])

\* update_job_status: the row's status is overwritten whatever it was;
\* error_message is part of the update only when it is truthy.
update_job_status(job_id, status, error_message) ==
    IF job_id \in DOMAIN audio_jobs
    THEN [audio_jobs EXCEPT
            ![job_id].status = status,
            ![job_id].error_message =
                IF Truthy(error_message) THEN error_message ELSE @]
    ELSE audio_jobs

\* update_job_metadata: overwrite metadata_json.
update_job_metadata(job_id) ==
    IF job_id \in DOMAIN audio_jobs
    THEN [audio_jobs EXCEPT ![job_id].metadata_json = TRUE]
    ELSE audio_jobs

\* Variant of store_audio_file that files the row under the next job.
store_audio_file_elsewhere(job_id, file_path, supabase_url) ==
    audio_files \cup {[id |-> NewId(audio_files),
                       job_id |-> (job_id % MaxJobs) + 1,
                       file_path |-> file_path,
                       supabase_url |-> supabase_url]}

store_audio_file(job_id, file_path, supabase_url) ==
    audio_files \cup {[id |-> NewId(audio_files), job_id |-> job_id,
                       file_path |-> file_path,
                       supabase_url |-> supabase_url]}

store_thumbnail(job_id, thumbnail_url) ==
    thumbnails \cup {[id |-> NewId(thumbnails), job_id |-> job_id,
                      thumbnail_url |-> thumbnail_url]}

\* Variant of store_transcription that replaces the rows of the table.
store_transcription_replaces(audio_file_id, text, language) ==
    {[id |-> NewId(transcriptions), audio_file_id |-> audio_file_id,
      text |-> text, language |-> language]}

store_transcription(audio_file_id, text, language) ==
    transcriptions \cup
        {[id |-> NewId(transcriptions), audio_file_id |-> audio_file_id,
          text |-> text, language |-> language]}

store_analysis(audio_file_id, summary, topics, sentiment, category) ==
    analyses \cup {[id |-> NewId(analyses), audio_file_id |-> audio_file_id,
                    summary |-> summary, topics |-> topics,
                    sentiment |-> sentiment, category |-> category]}

\* Variant of store_embedding whose insert is lost.
store_embedding_lost(audio_file_id) == embeddings

store_embedding(audio_file_id) ==
    embeddings \cup {[id |-> NewId(embeddings), audio_file_id |-> audio_file_id]}

\* `.data[0]` of a select without ORDER BY: the row inserted first (ids
\* grow with insertion in this model).
FirstRow(rows) == CHOOSE r \in rows : \A q \in rows : r.id <= q.id

\* `result.data[0] if result.data else None`
FirstOrNone(rows) == IF rows = {} THEN None ELSE Some(FirstRow(rows))

\* get_job_result_data for an existing job: the job's fields, the first
\* audio file row with its supabase:// reference turned into a URL by
\* get_public_url, and the first transcription, analysis and embedding
\* rows of that audio file.  A key the code leaves out is None here.
get_job_result_data(job_id) ==
    LET job == audio_jobs[job_id]
        audio_file == FirstOrNone({f \in audio_files : f.job_id = job_id})
        thumbnail == FirstOrNone({t \in thumbnails : t.job_id = job_id})
        Of(table) ==
            IF audio_file = None
            THEN None
            ELSE FirstOrNone({r \in table : r.audio_file_id = audio_file[1].id})
    IN [job_id |-> job_id,
        status |-> job.status,
        error_message |-> job.error_message,
        audio_file |->
            IF audio_file = None
            THEN None
            ELSE Some([id |-> audio_file[1].id,
                       url |-> IF audio_file[1].supabase_url.scheme = "supabase"
                               THEN get_public_url(audio_file[1].supabase_url.bucket,
                                                   audio_file[1].supabase_url.path)
                               ELSE Some(audio_file[1].supabase_url)]),
        transcription |-> Of(transcriptions),
        analysis |-> Of(analyses),
        embedding |-> Of(embeddings),
        thumbnail |-> IF thumbnail = None
                      THEN None
                      ELSE Some([url |-> thumbnail[1].thumbnail_url])]

\* ------------------------------------------------ submission and queue
Running(w) == worker[w].pc \notin {"idle", "returned", "raised"}

Queued(j) == \E i \in 1..Len(queue) : queue[i].job_id = j

\* Invocations started so far, all jobs together.
RECURSIVE Started(_)
Started(n) == IF n = 0 THEN 0 ELSE runs[n] + Started(n - 1)

\* create_job_endpoint: create the job, then enqueue it.  enqueue_job may
\* raise after the row was inserted (the endpoint then answers 500).
Submit(url) ==
    /\ Len(audio_jobs) + Len(recipes) < MaxJobs
    /\ LET platform == detect_platform(url)
           platform_name == IF platform # UNKNOWN THEN Some(platform) ELSE None
       IN audio_jobs' = create_job(url, platform_name)
    /\ \/ /\ queue' = Append(queue, [job_id |-> Len(audio_jobs) + 1, url |-> url])
          /\ NoFault
       \/ /\ UNCHANGED queue
          /\ Fault
    /\ UNCHANGED rvars
    /\ UNCHANGED probe
    /\ UNCHANGED call
    /\ UNCHANGED running
    /\ UNCHANGED storage
    /\ UNCHANGED <<tables, worker, scratch, runs>>

\* enqueue_job(process_audio_job, job_id, url) for a job id that was
\* processed before: the re-run of section 4.3.
Reprocess(j) ==
    /\ j \in DOMAIN audio_jobs
    /\ runs[j] >= 1
    /\ Started(MaxJobs) + Len(queue) + Len(recipes) < MaxRuns
    /\ ~Queued(j)
    /\ \A w \in DOMAIN worker : worker[w].job_id = j => ~Running(w)
    /\ queue' = Append(queue, [job_id |-> j, url |-> audio_jobs[j].url])
    /\ UNCHANGED rvars
    /\ UNCHANGED probe
    /\ UNCHANGED call
    /\ UNCHANGED running
    /\ UNCHANGED storage
    /\ UNCHANGED <<audio_jobs, tables, worker, scratch, runs, faults>>

\* Variant of Dequeue that reads the head of the queue and leaves it there.
DequeueWithoutPop(w) ==
    /\ ~Running(w)
    /\ queue # <<>>
    /\ worker' = [worker EXCEPT ![w] =
                    [IdleWorker EXCEPT !.pc = "set_downloading",
                                       !.job_id = Head(queue).job_id,
                                       !.url = Head(queue).url]]
    /\ runs' = [runs EXCEPT ![Head(queue).job_id] = @ + 1]
    /\ UNCHANGED rvars
    /\ UNCHANGED probe
    /\ UNCHANGED call
    /\ UNCHANGED running
    /\ UNCHANGED storage
    /\ UNCHANGED <<audio_jobs, tables, queue, scratch, faults>>

\* The worker takes the head of the queue and calls process_audio_job.
Dequeue(w) ==
    /\ ~Running(w)
    /\ queue # <<>>
    /\ queue' = Tail(queue)
    /\ worker' = [worker EXCEPT ![w] =
                    [IdleWorker EXCEPT !.pc = "set_downloading",
                                       !.job_id = Head(queue).job_id,
                                       !.url = Head(queue).url]]
    /\ runs' = [runs EXCEPT ![Head(queue).job_id] = @ + 1]
    /\ UNCHANGED rvars
    /\ UNCHANGED probe
    /\ UNCHANGED call
    /\ UNCHANGED running
    /\ UNCHANGED storage
    /\ UNCHANGED <<audio_jobs, tables, scratch, faults>>

\* ------------------------------------- job_processor.py: process_audio_job
At(w, p) == worker[w].pc = p

Goto(w, p) == [worker EXCEPT ![w].pc = p]

\* An exception leaves the try body: `except Exception as e` binds it.
Raise(w, text) ==
    [worker EXCEPT ![w].pc = "except", ![w].e = Some(text),
                   ![w].failed_at = worker[w].pc]

\* Texts of the exceptions the calls raise.  The store, the router, the
\* handlers and the service adapters wrap what they catch in a message of
\* their own; the download and the conversion also let exceptions through
\* unwrapped (open(), f.read()), whose str() may be empty.
StatusError == "Failed to update job status"
UnwrappedTexts == {""}

\* A status write between two stages: update_job_status(job_id, status).
SetStatus(w, status, next) ==
    /\ \/ /\ audio_jobs' = update_job_status(worker[w].job_id, status, None)
          /\ worker' = Goto(w, next)
          /\ NoFault
       \/ /\ worker' = Raise(w, StatusError)
          /\ UNCHANGED audio_jobs
          /\ Fault
    /\ UNCHANGED rvars
    /\ UNCHANGED probe
    /\ UNCHANGED call
    /\ UNCHANGED running
    /\ UNCHANGED storage
    /\ UNCHANGED <<tables, queue, scratch, runs>>

\* A call of an external capability that writes nothing to the store.
Call(w, next, texts) ==
    /\ \/ /\ worker' = Goto(w, next)
          /\ NoFault
       \/ /\ \E t \in texts : worker' = Raise(w, t)
          /\ Fault
    /\ UNCHANGED rvars
    /\ UNCHANGED probe
    /\ UNCHANGED call
    /\ UNCHANGED running
    /\ UNCHANGED storage
    /\ UNCHANGED <<audio_jobs, tables, queue, scratch, runs>>

\* Step 1
SetDownloading(w) ==
    /\ At(w, "set_downloading")
    /\ SetStatus(w, DOWNLOADING, "get_handler")

\* Step 2: platform_router.get_handler(url)
GetHandler(w) ==
    /\ At(w, "get_handler")
    /\ LET r == get_handler(worker[w].url) IN
       worker' = IF "raises" \in DOMAIN r
                 THEN Raise(w, r.raises)
                 ELSE Goto(w, "fetch_metadata")
    /\ UNCHANGED rvars
    /\ UNCHANGED probe
    /\ UNCHANGED call
    /\ UNCHANGED running
    /\ UNCHANGED storage
    /\ UNCHANGED <<audio_jobs, tables, queue, scratch, runs, faults>>

\* handler.fetch_metadata(url) and metadata['video_url']
FetchMetadata(w) ==
    /\ At(w, "fetch_metadata")
    /\ Call(w, "update_metadata", {"Failed to fetch Reel metadata"})

UpdateMetadata(w) ==
    /\ At(w, "update_metadata")
    /\ \/ /\ audio_jobs' = update_job_metadata(worker[w].job_id)
          /\ worker' = Goto(w, "set_extracting")
          /\ NoFault
       \/ /\ worker' = Raise(w, "Failed to update job metadata")
          /\ UNCHANGED audio_jobs
          /\ Fault
    /\ UNCHANGED rvars
    /\ UNCHANGED probe
    /\ UNCHANGED call
    /\ UNCHANGED running
    /\ UNCHANGED storage
    /\ UNCHANGED <<tables, queue, scratch, runs>>

\* Step 3
SetExtracting(w) ==
    /\ At(w, "set_extracting")
    /\ SetStatus(w, EXTRACTING_AUDIO, "mkdtemp")

\* The directory tempfile.mkdtemp made for a run of worker w.
AudioDir(w) == <<"process_audio_job", w>>

\* tempfile.mkdtemp: the directory exists from here on.
Mkdtemp(w) ==
    /\ At(w, "mkdtemp")
    /\ \/ /\ scratch' = scratch \cup {AudioDir(w)}
          /\ worker' = Goto(w, "download")
          /\ NoFault
       \/ /\ worker' = Raise(w, "No space left on device")
          /\ UNCHANGED scratch
          /\ Fault
    /\ UNCHANGED rvars
    /\ UNCHANGED probe
    /\ UNCHANGED call
    /\ UNCHANGED running
    /\ UNCHANGED storage
    /\ UNCHANGED <<audio_jobs, tables, queue, runs>>

\* Variant of Pending without the finally clause: the exception of the
\* download or of the conversion goes straight to the handler.
PendingWithoutFinally(w, text) ==
    [worker EXCEPT ![w].pc = "except", ![w].e = Some(text),
                   ![w].failed_at = worker[w].pc]

\* Inside try/finally: an exception is pending while the finally clause runs.
Pending(w, text) ==
    [worker EXCEPT ![w].pc = "cleanup", ![w].e = Some(text),
                   ![w].failed_at = worker[w].pc]

\* Variant of Download that notes the error of a failed download and calls
\* download_video again.
DownloadRetries(w) ==
    /\ At(w, "download")
    /\ \/ /\ worker' = Goto(w, "convert")
          /\ NoFault
       \/ /\ worker' = [worker EXCEPT ![w].e = Some("Failed to download video")]
          /\ Fault
    /\ UNCHANGED rvars
    /\ UNCHANGED probe
    /\ UNCHANGED call
    /\ UNCHANGED running
    /\ UNCHANGED storage
    /\ UNCHANGED <<audio_jobs, tables, queue, scratch, runs>>

\* handler.download_video(url, download_target, metadata)
Download(w) ==
    /\ At(w, "download")
    /\ \/ /\ worker' = Goto(w, "convert")
          /\ NoFault
       \/ /\ \E t \in {"Failed to download video"} \cup UnwrappedTexts :
                worker' = Pending(w, t)
          /\ Fault
    /\ UNCHANGED rvars
    /\ UNCHANGED probe
    /\ UNCHANGED call
    /\ UNCHANGED running
    /\ UNCHANGED storage
    /\ UNCHANGED <<audio_jobs, tables, queue, scratch, runs>>

\* convert_video_file_to_audio(downloaded_path): audio bytes and an optional
\* thumbnail.
Convert(w) ==
    /\ At(w, "convert")
    /\ \/ /\ \E thumb \in BOOLEAN :
                worker' = [worker EXCEPT ![w].pc = "cleanup",
                                         ![w].thumbnail_bytes = thumb]
          /\ NoFault
       \/ /\ \E t \in {"Failed to extract audio"} \cup UnwrappedTexts :
                worker' = Pending(w, t)
          /\ Fault
    /\ UNCHANGED rvars
    /\ UNCHANGED probe
    /\ UNCHANGED call
    /\ UNCHANGED running
    /\ UNCHANGED storage
    /\ UNCHANGED <<audio_jobs, tables, queue, scratch, runs>>

\* finally: shutil.rmtree(temp_dir, ignore_errors=True); then the pending
\* exception propagates, or the thumbnail test `if thumbnail_bytes` is made.
Cleanup(w) ==
    /\ At(w, "cleanup")
    /\ scratch' = scratch \ {AudioDir(w)}
    /\ worker' = Goto(w, IF worker[w].e # None THEN "except"
                         ELSE IF worker[w].thumbnail_bytes THEN "thumb_status"
                         ELSE "set_uploading")
    /\ UNCHANGED rvars
    /\ UNCHANGED probe
    /\ UNCHANGED call
    /\ UNCHANGED running
    /\ UNCHANGED storage
    /\ UNCHANGED <<audio_jobs, tables, queue, runs, faults>>

\* Variant of ThumbnailFailed without the inner try: the thumbnail failure
\* reaches the outer handler.
ThumbnailFailedIsFatal(w) ==
    [worker EXCEPT ![w].pc = "except", ![w].thumb_failed = TRUE,
                   ![w].e = Some("Failed to upload thumbnail")]

\* Step 4: the thumbnail block; `except Exception` logs and goes on.
ThumbnailFailed(w) ==
    [worker EXCEPT ![w].pc = "set_uploading", ![w].thumb_failed = TRUE]

ThumbnailStatus(w) ==
    /\ At(w, "thumb_status")
    /\ \/ /\ audio_jobs' = update_job_status(worker[w].job_id, UPLOADING, None)
          /\ worker' = Goto(w, "thumb_upload")
          /\ NoFault
       \/ /\ worker' = ThumbnailFailed(w)
          /\ UNCHANGED audio_jobs
          /\ Fault
    /\ UNCHANGED rvars
    /\ UNCHANGED probe
    /\ UNCHANGED call
    /\ UNCHANGED running
    /\ UNCHANGED storage
    /\ UNCHANGED <<tables, queue, scratch, runs>>

UploadThumbnail(w) ==
    /\ At(w, "thumb_upload")
    /\ \/ /\ worker' = [worker EXCEPT
                          ![w].pc = "thumb_store",
                          ![w].thumbnail_url = upload_thumbnail(worker[w].job_id)]
          /\ storage' = storage \cup
                           {StoredObject(upload_thumbnail(worker[w].job_id))}
          /\ NoFault
       \/ /\ worker' = ThumbnailFailed(w)
          /\ UNCHANGED storage
          /\ Fault
    /\ UNCHANGED rvars
    /\ UNCHANGED probe
    /\ UNCHANGED call
    /\ UNCHANGED running
    /\ UNCHANGED <<audio_jobs, tables, queue, scratch, runs>>

StoreThumbnail(w) ==
    /\ At(w, "thumb_store")
    /\ \/ /\ thumbnails' = store_thumbnail(worker[w].job_id, worker[w].thumbnail_url)
          /\ worker' = Goto(w, "set_uploading")
          /\ NoFault
       \/ /\ worker' = ThumbnailFailed(w)
          /\ UNCHANGED thumbnails
          /\ Fault
    /\ UNCHANGED rvars
    /\ UNCHANGED probe
    /\ UNCHANGED call
    /\ UNCHANGED running
    /\ UNCHANGED storage
    /\ UNCHANGED <<audio_jobs, audio_files, transcriptions, analyses,
                   embeddings, queue, scratch, runs>>

\* Step 5
SetUploading(w) ==
    /\ At(w, "set_uploading")
    /\ SetStatus(w, UPLOADING, "upload_audio")

UploadAudio(w) ==
    /\ At(w, "upload_audio")
    /\ LET r == upload_audio_file(worker[w].job_id) IN
       \/ /\ worker' = [worker EXCEPT ![w].pc = "store_audio",
                                      ![w].audio_url = r.storage_ref,
                                      ![w].audio_file_path = r.file_path]
          /\ storage' = storage \cup {StoredObject(r.storage_ref)}
          /\ NoFault
       \/ /\ worker' = Raise(w, "Failed to upload file to Supabase")
          /\ UNCHANGED storage
          /\ Fault
    /\ UNCHANGED rvars
    /\ UNCHANGED probe
    /\ UNCHANGED call
    /\ UNCHANGED running
    /\ UNCHANGED <<audio_jobs, tables, queue, scratch, runs>>

\* Variant of StoreAudioFile that reuses the audio file row an earlier run
\* of the job left.
StoreAudioFileReuses(w) ==
    /\ At(w, "store_audio")
    /\ LET earlier == {a \in audio_files : a.job_id = worker[w].job_id} IN
       IF earlier = {}
       THEN /\ audio_files' = store_audio_file(worker[w].job_id,
                                               worker[w].audio_file_path,
                                               worker[w].audio_url)
            /\ worker' = [worker EXCEPT ![w].pc = "set_transcribing",
                                        ![w].audio_file_id = NewId(audio_files)]
       ELSE /\ UNCHANGED audio_files
            /\ worker' = [worker EXCEPT ![w].pc = "set_transcribing",
                                        ![w].audio_file_id = FirstRow(earlier).id]
    /\ UNCHANGED rvars
    /\ UNCHANGED probe
    /\ UNCHANGED call
    /\ UNCHANGED running
    /\ UNCHANGED storage
    /\ UNCHANGED <<audio_jobs, thumbnails, transcriptions, analyses,
                   embeddings, queue, scratch, runs, faults>>

StoreAudioFile(w) ==
    /\ At(w, "store_audio")
    /\ \/ /\ audio_files' = store_audio_file(worker[w].job_id,
                                           worker[w].audio_file_path,
                                           worker[w].audio_url)
          /\ worker' = [worker EXCEPT ![w].pc = "set_transcribing",
                                      ![w].audio_file_id = NewId(audio_files)]
          /\ NoFault
       \/ /\ worker' = Raise(w, "Failed to store audio file")
          /\ UNCHANGED audio_files
          /\ Fault
    /\ UNCHANGED rvars
    /\ UNCHANGED probe
    /\ UNCHANGED call
    /\ UNCHANGED running
    /\ UNCHANGED storage
    /\ UNCHANGED <<audio_jobs, thumbnails, transcriptions, analyses,
                   embeddings, queue, scratch, runs>>

\* Step 6
SetTranscribing(w) ==
    /\ At(w, "set_transcribing")
    /\ SetStatus(w, TRANSCRIBING, "transcribe")

\* transcribe_audio's result for the service's verbose_json response.
transcribe_audio(audio_url) == [text |-> "transcript", language |-> Some("en")]

Transcribe(w) ==
    /\ At(w, "transcribe")
    /\ \/ /\ worker' = [worker EXCEPT
                          ![w].pc = "store_transcription",
                          ![w].transcript_data = transcribe_audio(worker[w].audio_url)]
          /\ NoFault
       \/ /\ worker' = Raise(w, "Failed to transcribe audio")
          /\ Fault
    /\ UNCHANGED rvars
    /\ UNCHANGED probe
    /\ UNCHANGED call
    /\ UNCHANGED running
    /\ UNCHANGED storage
    /\ UNCHANGED <<audio_jobs, tables, queue, scratch, runs>>

StoreTranscription(w) ==
    /\ At(w, "store_transcription")
    /\ \/ /\ transcriptions' = store_transcription(worker[w].audio_file_id,
                                                  worker[w].transcript_data.text,
                                                  worker[w].transcript_data.language)
          /\ worker' = Goto(w, "set_analyzing")
          /\ NoFault
       \/ /\ worker' = Raise(w, "Failed to store transcription")
          /\ UNCHANGED transcriptions
          /\ Fault
    /\ UNCHANGED rvars
    /\ UNCHANGED probe
    /\ UNCHANGED call
    /\ UNCHANGED running
    /\ UNCHANGED storage
    /\ UNCHANGED <<audio_jobs, audio_files, thumbnails, analyses,
                   embeddings, queue, scratch, runs>>

\* Step 7
SetAnalyzing(w) ==
    /\ At(w, "set_analyzing")
    /\ SetStatus(w, ANALYZING, "analyze")

\* ------------------------------------------------------- ai_analyzer.py
\* What the chat completion may answer: JSON with every field, JSON that
\* lacks summary and topics, and text that is not JSON.
AnalysisResponseKinds == {"complete", "missing_field", "malformed"}

AnalysisResponse(kind) ==
    CASE kind = "complete" ->
           [json |-> TRUE,
            data |-> [summary |-> "a summary", topics |-> <<"cooking">>,
                      sentiment |-> "Positive", category |-> "Tutorial"]]
      [] kind = "missing_field" ->
           [json |-> TRUE,
            data |-> [sentiment |-> "happy", category |-> "other"]]
      [] kind = "malformed" ->
           [json |-> FALSE, data |-> [text |-> "not json"]]

\* str.lower() on the words the responses use.
str_lower(s) ==
    CASE s = "Positive" -> "positive"
      [] s = "Tutorial" -> "tutorial"
      [] OTHER -> s

valid_sentiments == {"positive", "neutral", "negative"}

\* analyze_content after the completion call: json.loads (a decode error
\* is raised as RuntimeError), a default for each missing field, "neutral"
\* for a sentiment outside valid_sentiments, lower-cased sentiment and
\* category.
analyze_content(response) ==
    IF ~response.json
    THEN [raises |-> "Failed to analyze content"]
    ELSE LET analysis_data == response.data
             Field(f, default) ==
                 IF f \in DOMAIN analysis_data THEN analysis_data[f] ELSE default
             sentiment == Field("sentiment", "neutral")
         IN [value |->
               [summary |-> Field("summary", "No summary available"),
                topics |-> Field("topics", <<>>),
                sentiment |-> IF str_lower(sentiment) \in valid_sentiments
                              THEN str_lower(sentiment)
                              ELSE "neutral",
                category |-> str_lower(Field("category", "other"))]]

Analyze(w) ==
    /\ At(w, "analyze")
    /\ \/ /\ \E kind \in AnalysisResponseKinds :
                /\ LET r == analyze_content(AnalysisResponse(kind)) IN
                   worker' =
                       IF "raises" \in DOMAIN r
                       THEN [Raise(w, r.raises) EXCEPT
                               ![w].analysis_response = kind]
                       ELSE [worker EXCEPT ![w].pc = "store_analysis",
                                           ![w].analysis_response = kind,
                                           ![w].analysis_data = r.value]
                /\ IF kind = "complete" THEN NoFault ELSE Fault
       \/ /\ worker' = Raise(w, "Failed to analyze content")
          /\ Fault
    /\ UNCHANGED rvars
    /\ UNCHANGED probe
    /\ UNCHANGED call
    /\ UNCHANGED running
    /\ UNCHANGED storage
    /\ UNCHANGED <<audio_jobs, tables, queue, scratch, runs>>

StoreAnalysis(w) ==
    /\ At(w, "store_analysis")
    /\ \/ /\ analyses' = store_analysis(worker[w].audio_file_id,
                                        worker[w].analysis_data.summary,
                                        worker[w].analysis_data.topics,
                                        worker[w].analysis_data.sentiment,
                                        worker[w].analysis_data.category)
          /\ worker' = Goto(w, "set_embeddings")
          /\ NoFault
       \/ /\ worker' = Raise(w, "Failed to store analysis")
          /\ UNCHANGED analyses
          /\ Fault
    /\ UNCHANGED rvars
    /\ UNCHANGED probe
    /\ UNCHANGED call
    /\ UNCHANGED running
    /\ UNCHANGED storage
    /\ UNCHANGED <<audio_jobs, audio_files, thumbnails, transcriptions,
                   embeddings, queue, scratch, runs>>

\* Step 8
SetGeneratingEmbeddings(w) ==
    /\ At(w, "set_embeddings")
    /\ SetStatus(w, GENERATING_EMBEDDINGS, "embed")

GenerateEmbeddings(w) ==
    /\ At(w, "embed")
    /\ Call(w, "store_embedding", {"Failed to generate embeddings for content"})

StoreEmbedding(w) ==
    /\ At(w, "store_embedding")
    /\ \/ /\ embeddings' = store_embedding(worker[w].audio_file_id)
          /\ worker' = Goto(w, "set_storing")
          /\ NoFault
       \/ /\ worker' = Raise(w, "Failed to store embedding")
          /\ UNCHANGED embeddings
          /\ Fault
    /\ UNCHANGED rvars
    /\ UNCHANGED probe
    /\ UNCHANGED call
    /\ UNCHANGED running
    /\ UNCHANGED storage
    /\ UNCHANGED <<audio_jobs, audio_files, thumbnails, transcriptions,
                   analyses, queue, scratch, runs>>

\* Variant of SetStoring that writes COMPLETED where STORING is due.
SetStoringWritesCompleted(w) ==
    /\ At(w, "set_storing")
    /\ SetStatus(w, COMPLETED, "set_completed")

\* Variant of SetCompleted in which a statement after the COMPLETED write,
\* still inside the try body, raises.
SetCompletedThenRaises(w) ==
    /\ At(w, "set_completed")
    /\ audio_jobs' = update_job_status(worker[w].job_id, COMPLETED, None)
    /\ worker' = Raise(w, "log handler failed")
    /\ UNCHANGED rvars
    /\ UNCHANGED probe
    /\ UNCHANGED call
    /\ UNCHANGED running
    /\ UNCHANGED storage
    /\ UNCHANGED <<tables, queue, scratch, runs, faults>>

\* Steps 9 and 10
SetStoring(w) ==
    /\ At(w, "set_storing")
    /\ SetStatus(w, STORING, "set_completed")

SetCompleted(w) ==
    /\ At(w, "set_completed")
    /\ SetStatus(w, COMPLETED, "returned")

\* except Exception as e: update_job_status(job_id, FAILED, str(e)); raise.
\* When that write raises, its RuntimeError leaves the function instead.
Except(w) ==
    /\ At(w, "except")
    /\ \/ /\ audio_jobs' = update_job_status(worker[w].job_id, FAILED, worker[w].e)
          /\ NoFault
       \/ /\ UNCHANGED audio_jobs
          /\ Fault
    /\ worker' = [worker EXCEPT ![w].pc = "raised", ![w].raised = TRUE]
    /\ UNCHANGED rvars
    /\ UNCHANGED probe
    /\ UNCHANGED call
    /\ UNCHANGED running
    /\ UNCHANGED storage
    /\ UNCHANGED <<tables, queue, scratch, runs>>

process_audio_job(w) ==
    \/ SetDownloading(w) \/ GetHandler(w) \/ FetchMetadata(w)
    \/ UpdateMetadata(w) \/ SetExtracting(w) \/ Mkdtemp(w) \/ Download(w)
    \/ Convert(w) \/ Cleanup(w) \/ ThumbnailStatus(w) \/ UploadThumbnail(w)
    \/ StoreThumbnail(w) \/ SetUploading(w) \/ UploadAudio(w)
    \/ StoreAudioFile(w) \/ SetTranscribing(w) \/ Transcribe(w)
    \/ StoreTranscription(w) \/ SetAnalyzing(w) \/ Analyze(w)
    \/ StoreAnalysis(w) \/ SetGeneratingEmbeddings(w) \/ GenerateEmbeddings(w)
    \/ StoreEmbedding(w) \/ SetStoring(w) \/ SetCompleted(w) \/ Except(w)

Next ==
    \/ \E url \in Urls : Submit(url)
    \/ \E j \in JobIds : Reprocess(j)
    \/ \E w \in Workers : Dequeue(w)
    \/ \E w \in Workers : process_audio_job(w)

Spec == Init /\ [][Next]_vars

\* ------------------------------------------- several worker processes
\* `python worker.py` started once more than in Spec: the processes pull
\* from the same queue and share nothing else.  The budget of raising
\* calls is spent from the start: a run fails here only through its URL.
PoolWorkers == 1..(NumWorkers + 1)

InitWorkers ==
    /\ audio_jobs = <<>>
    /\ audio_files = {}
    /\ thumbnails = {}
    /\ transcriptions = {}
    /\ analyses = {}
    /\ embeddings = {}
    /\ storage = {}
    /\ queue = <<>>
    /\ worker = [w \in PoolWorkers |-> IdleWorker]
    /\ scratch = {}
    /\ runs = [j \in JobIds |-> 0]
    /\ faults = MaxFaults
    /\ recipes = <<>>
    /\ ingredients = {}
    /\ instructions = {}
    /\ recipe_queue = <<>>
    /\ recipe_worker = IdleRecipeWorker
    /\ probe = NoProbe
    /\ call = NoCall
    /\ running = TRUE

WorkersNext ==
    \/ \E url \in Urls : Submit(url)
    \/ \E j \in JobIds : Reprocess(j)
    \/ \E w \in PoolWorkers : Dequeue(w)
    \/ \E w \in PoolWorkers : process_audio_job(w)

\* Worker.work() loops for ever and every external call has a timeout, so
\* a worker that can take an item or make its next call does so.
SpecWorkers ==
    /\ InitWorkers
    /\ [][WorkersNext]_vars
    /\ \A w \in PoolWorkers : WF_vars(Dequeue(w) \/ process_audio_job(w))

\* ===================================== recipe-extraction: recipe_worker.py
\* The application creates the recipe row and pushes an item on the list:
\* the JSON text of {recipe_id, url, user_id}, or text that is not JSON.
\* user_id 0 stands for a payload without user_id.
EnqueueRecipe(url, user_id, well_formed) ==
    /\ Len(audio_jobs) + Len(recipes) < MaxJobs
    /\ recipes' = Append(recipes, [status |-> "pending", platform |-> None,
                                   thumbnail_url |-> FALSE, title |-> FALSE])
    /\ recipe_queue' = Append(recipe_queue,
                              [json |-> well_formed,
                               recipe_id |-> Len(recipes) + 1, url |-> url,
                               user_id |-> user_id])
    /\ UNCHANGED <<ingredients, instructions, recipe_worker, scratch, faults>>
    /\ UNCHANGED avars
    /\ UNCHANGED probe
    /\ UNCHANGED call
    /\ UNCHANGED running
    /\ UNCHANGED storage

\* The worker is inside process_recipe_extraction.
RecipeRunning ==
    recipe_worker.pc \notin {"idle", "returned", "raised", "invalid_job", "bad_json"}

\* Variant of process_job's test that does not look at user_id.
ValidJobWithoutUser(job_data) ==
    job_data.recipe_id # 0 /\ PyTruthy(job_data.url)

\* process_job's test `all([recipe_id, url, user_id])`.
ValidJob(job_data) ==
    job_data.recipe_id # 0 /\ PyTruthy(job_data.url) /\ job_data.user_id # 0

\* main: blpop, json.loads, process_job.  Text that is not JSON is logged
\* by the JSONDecodeError handler, a payload that fails process_job's test
\* is logged and dropped; otherwise process_recipe_extraction is entered.
PopRecipe ==
    /\ ~RecipeRunning
    /\ recipe_queue # <<>>
    /\ recipe_queue' = Tail(recipe_queue)
    /\ recipe_worker' =
          IF ~Head(recipe_queue).json
          THEN [IdleRecipeWorker EXCEPT !.pc = "bad_json"]
          ELSE IF ~ValidJob(Head(recipe_queue))
          THEN [IdleRecipeWorker EXCEPT !.pc = "invalid_job"]
          ELSE [IdleRecipeWorker EXCEPT !.pc = "set_downloading",
                                        !.recipe_id = Head(recipe_queue).recipe_id,
                                        !.url = Head(recipe_queue).url]
    /\ UNCHANGED <<recipes, ingredients, instructions, scratch, faults>>
    /\ UNCHANGED avars
    /\ UNCHANGED probe
    /\ UNCHANGED call
    /\ UNCHANGED running
    /\ UNCHANGED storage

\* signal_handler, run on SIGINT or SIGTERM between any two steps of main.
SignalHandler ==
    /\ running
    /\ recipe_worker.pc # "exited"
    /\ running' = FALSE
    /\ UNCHANGED <<recipes, ingredients, instructions, recipe_queue,
                   recipe_worker, scratch, faults>>
    /\ UNCHANGED avars
    /\ UNCHANGED probe
    /\ UNCHANGED call
    /\ UNCHANGED storage

\* main: the test of `while running`, at the top of the loop.
LoopTest ==
    /\ ~RecipeRunning
    /\ recipe_worker' = [recipe_worker EXCEPT !.pc = IF running THEN "blpop"
                                                     ELSE "exited"]
    /\ UNCHANGED <<recipes, ingredients, instructions, recipe_queue, scratch,
                   faults, running>>
    /\ UNCHANGED avars
    /\ UNCHANGED probe
    /\ UNCHANGED call
    /\ UNCHANGED storage

\* main: blpop returns an item; json.loads and process_job follow at once,
\* as in PopRecipe.
Blpop ==
    /\ recipe_worker.pc = "blpop"
    /\ recipe_queue # <<>>
    /\ recipe_queue' = Tail(recipe_queue)
    /\ recipe_worker' =
          IF ~Head(recipe_queue).json
          THEN [IdleRecipeWorker EXCEPT !.pc = "bad_json"]
          ELSE IF ~ValidJob(Head(recipe_queue))
          THEN [IdleRecipeWorker EXCEPT !.pc = "invalid_job"]
          ELSE [IdleRecipeWorker EXCEPT !.pc = "set_downloading",
                                        !.recipe_id = Head(recipe_queue).recipe_id,
                                        !.url = Head(recipe_queue).url]
    /\ UNCHANGED <<recipes, ingredients, instructions, scratch, faults, running>>
    /\ UNCHANGED avars
    /\ UNCHANGED probe
    /\ UNCHANGED call
    /\ UNCHANGED storage

\* main: blpop returns None after its timeout of 5 seconds; `continue`.
BlpopTimeout ==
    /\ recipe_worker.pc = "blpop"
    /\ recipe_queue = <<>>
    /\ recipe_worker' = [recipe_worker EXCEPT !.pc = "idle"]
    /\ UNCHANGED <<recipes, ingredients, instructions, recipe_queue, scratch,
                   faults, running>>
    /\ UNCHANGED avars
    /\ UNCHANGED probe
    /\ UNCHANGED call
    /\ UNCHANGED storage

\* Another producer pushes a JSON payload in which recipe_id, url or
\* user_id is missing or empty (0, None and '' stand for both); recipe_id,
\* when present, is the id of an existing recipe.
EnqueuePayload(recipe_id, url, user_id) ==
    /\ Len(recipe_queue) < MaxJobs
    /\ recipe_id \in {0} \cup DOMAIN recipes
    /\ recipe_id = 0 \/ ~PyTruthy(url) \/ user_id = 0
    /\ recipe_queue' = Append(recipe_queue,
                              [json |-> TRUE, recipe_id |-> recipe_id,
                               url |-> url, user_id |-> user_id])
    /\ UNCHANGED <<recipes, ingredients, instructions, recipe_worker, scratch,
                   faults>>
    /\ UNCHANGED avars
    /\ UNCHANGED probe
    /\ UNCHANGED call
    /\ UNCHANGED running
    /\ UNCHANGED storage

\* ------------------------- recipe_processor.py: process_recipe_extraction
RecipeAt(p) == recipe_worker.pc = p

RecipeGoto(p) == [recipe_worker EXCEPT !.pc = p]

RecipeRaise(text) ==
    [recipe_worker EXCEPT !.pc = "except", !.e = Some(text),
                          !.failed_at = recipe_worker.pc]

\* update_recipe_status: supabase.table("recipes").update({"status": ...}).
update_recipe_status(recipe_id, status) ==
    IF recipe_id \in DOMAIN recipes
    THEN [recipes EXCEPT ![recipe_id].status = status]
    ELSE recipes

RecipeSetStatus(status, next) ==
    /\ \/ /\ recipes' = update_recipe_status(recipe_worker.recipe_id, status)
          /\ recipe_worker' = RecipeGoto(next)
          /\ NoFault
       \/ /\ recipe_worker' = RecipeRaise("status update failed")
          /\ UNCHANGED recipes
          /\ Fault
    /\ UNCHANGED <<ingredients, instructions, recipe_queue, scratch>>
    /\ UNCHANGED avars
    /\ UNCHANGED probe
    /\ UNCHANGED call
    /\ UNCHANGED running
    /\ UNCHANGED storage

RecipeCall(next, text) ==
    /\ \/ /\ recipe_worker' = RecipeGoto(next)
          /\ NoFault
       \/ /\ recipe_worker' = RecipeRaise(text)
          /\ Fault
    /\ UNCHANGED <<recipes, ingredients, instructions, recipe_queue, scratch>>
    /\ UNCHANGED avars
    /\ UNCHANGED probe
    /\ UNCHANGED call
    /\ UNCHANGED running
    /\ UNCHANGED storage

\* get_supabase_client and the first status write.
RecipeSetDownloading ==
    /\ RecipeAt("set_downloading")
    /\ RecipeSetStatus("downloading", "get_handler")

\* Step 1: detect_platform, then PlatformRouter().get_handler(url).
RecipeGetHandler ==
    /\ RecipeAt("get_handler")
    /\ LET r == get_handler(recipe_worker.url) IN
       recipe_worker' = IF "raises" \in DOMAIN r
                        THEN RecipeRaise(r.raises)
                        ELSE RecipeGoto("fetch_metadata")
    /\ UNCHANGED <<recipes, ingredients, instructions, recipe_queue, scratch,
                   faults>>
    /\ UNCHANGED avars
    /\ UNCHANGED probe
    /\ UNCHANGED call
    /\ UNCHANGED running
    /\ UNCHANGED storage

\* Step 2
RecipeFetchMetadata ==
    /\ RecipeAt("fetch_metadata")
    /\ RecipeCall("update_platform", "Failed to fetch Reel metadata")

RecipeUpdatePlatform ==
    /\ RecipeAt("update_platform")
    /\ \/ /\ recipes' =
                IF recipe_worker.recipe_id \in DOMAIN recipes
                THEN [recipes EXCEPT ![recipe_worker.recipe_id].platform =
                          Some(detect_platform(recipe_worker.url))]
                ELSE recipes
          /\ recipe_worker' = RecipeGoto("set_extracting")
          /\ NoFault
       \/ /\ recipe_worker' = RecipeRaise("platform update failed")
          /\ UNCHANGED recipes
          /\ Fault
    /\ UNCHANGED <<ingredients, instructions, recipe_queue, scratch>>
    /\ UNCHANGED avars
    /\ UNCHANGED probe
    /\ UNCHANGED call
    /\ UNCHANGED running
    /\ UNCHANGED storage

\* Step 3
RecipeSetExtracting ==
    /\ RecipeAt("set_extracting")
    /\ RecipeSetStatus("extracting_audio", "mkdtemp")

\* The directory tempfile.mkdtemp made for the recipe worker's run.
RecipeDir == <<"process_recipe_extraction", 1>>

RecipeMkdtemp ==
    /\ RecipeAt("mkdtemp")
    /\ \/ /\ scratch' = scratch \cup {RecipeDir}
          /\ recipe_worker' = RecipeGoto("download")
          /\ NoFault
       \/ /\ recipe_worker' = RecipeRaise("No space left on device")
          /\ UNCHANGED scratch
          /\ Fault
    /\ UNCHANGED <<recipes, ingredients, instructions, recipe_queue>>
    /\ UNCHANGED avars
    /\ UNCHANGED probe
    /\ UNCHANGED call
    /\ UNCHANGED running
    /\ UNCHANGED storage

\* Inside try/finally: the exception is pending while finally runs.
RecipePending(text) ==
    [recipe_worker EXCEPT !.pc = "cleanup", !.e = Some(text),
                          !.failed_at = recipe_worker.pc]

RecipeDownload ==
    /\ RecipeAt("download")
    /\ \/ /\ recipe_worker' = RecipeGoto("convert")
          /\ NoFault
       \/ /\ recipe_worker' = RecipePending("Failed to download video")
          /\ Fault
    /\ UNCHANGED <<recipes, ingredients, instructions, recipe_queue, scratch>>
    /\ UNCHANGED avars
    /\ UNCHANGED probe
    /\ UNCHANGED call
    /\ UNCHANGED running
    /\ UNCHANGED storage

RecipeConvert ==
    /\ RecipeAt("convert")
    /\ \/ /\ \E thumb \in BOOLEAN :
                recipe_worker' = [recipe_worker EXCEPT !.pc = "cleanup",
                                                       !.thumbnail_bytes = thumb]
          /\ NoFault
       \/ /\ recipe_worker' = RecipePending("Failed to extract audio")
          /\ Fault
    /\ UNCHANGED <<recipes, ingredients, instructions, recipe_queue, scratch>>
    /\ UNCHANGED avars
    /\ UNCHANGED probe
    /\ UNCHANGED call
    /\ UNCHANGED running
    /\ UNCHANGED storage

\* finally: shutil.rmtree(temp_dir, ignore_errors=True)
RecipeCleanup ==
    /\ RecipeAt("cleanup")
    /\ scratch' = scratch \ {RecipeDir}
    /\ recipe_worker' =
          RecipeGoto(IF recipe_worker.e # None THEN "except"
                     ELSE IF recipe_worker.thumbnail_bytes THEN "thumbnail"
                     ELSE "set_transcribing")
    /\ UNCHANGED <<recipes, ingredients, instructions, recipe_queue, faults>>
    /\ UNCHANGED avars
    /\ UNCHANGED probe
    /\ UNCHANGED call
    /\ UNCHANGED running
    /\ UNCHANGED storage

\* Step 4: upload the thumbnail and record its URL; a failure is logged.
RecipeThumbnail ==
    /\ RecipeAt("thumbnail")
    /\ \/ /\ recipes' =
                IF recipe_worker.recipe_id \in DOMAIN recipes
                THEN [recipes EXCEPT ![recipe_worker.recipe_id].thumbnail_url = TRUE]
                ELSE recipes
          /\ NoFault
       \/ /\ UNCHANGED recipes
          /\ Fault
    /\ recipe_worker' = RecipeGoto("set_transcribing")
    /\ UNCHANGED <<ingredients, instructions, recipe_queue, scratch>>
    /\ UNCHANGED avars
    /\ UNCHANGED probe
    /\ UNCHANGED call
    /\ UNCHANGED running
    /\ UNCHANGED storage

\* Step 5
RecipeSetTranscribing ==
    /\ RecipeAt("set_transcribing")
    /\ RecipeSetStatus("transcribing", "transcribe")

RecipeTranscribe ==
    /\ RecipeAt("transcribe")
    /\ RecipeCall("set_analyzing", "Failed to transcribe audio")

\* Step 6
RecipeSetAnalyzing ==
    /\ RecipeAt("set_analyzing")
    /\ RecipeSetStatus("analyzing", "analyze")

\* extract_recipe_from_transcript and map_recipe_to_database: the mapped
\* ingredient and instruction lists may be empty.
RecipeAnalyze ==
    /\ RecipeAt("analyze")
    /\ \/ /\ \E i \in 0..1, s \in 0..1 :
                recipe_worker' = [recipe_worker EXCEPT !.pc = "update_recipe",
                                                       !.n_ingredients = i,
                                                       !.n_instructions = s]
          /\ NoFault
       \/ /\ recipe_worker' = RecipeRaise("Failed to extract recipe")
          /\ Fault
    /\ UNCHANGED <<recipes, ingredients, instructions, recipe_queue, scratch>>
    /\ UNCHANGED avars
    /\ UNCHANGED probe
    /\ UNCHANGED call
    /\ UNCHANGED running
    /\ UNCHANGED storage

\* Steps 7 and 8: the mapped recipe_update carries status "completed".
RecipeUpdateRecipe ==
    /\ RecipeAt("update_recipe")
    /\ \/ /\ recipes' =
                IF recipe_worker.recipe_id \in DOMAIN recipes
                THEN [recipes EXCEPT ![recipe_worker.recipe_id].status = "completed",
                                     ![recipe_worker.recipe_id].title = TRUE]
                ELSE recipes
          /\ recipe_worker' = RecipeGoto("insert_ingredients")
          /\ NoFault
       \/ /\ recipe_worker' = RecipeRaise("recipe update failed")
          /\ UNCHANGED recipes
          /\ Fault
    /\ UNCHANGED <<ingredients, instructions, recipe_queue, scratch>>
    /\ UNCHANGED avars
    /\ UNCHANGED probe
    /\ UNCHANGED call
    /\ UNCHANGED running
    /\ UNCHANGED storage

\* The rows one insert call adds to a child table of the recipe.
RecipeRows(table, recipe_id, n) ==
    table \cup {[id |-> NewId(table) + k - 1, recipe_id |-> recipe_id] : k \in 1..n}

\* `if mapped_data["ingredients"]`: insert them in one call.
RecipeInsertIngredients ==
    /\ RecipeAt("insert_ingredients")
    /\ \/ /\ ingredients' = RecipeRows(ingredients, recipe_worker.recipe_id,
                                       recipe_worker.n_ingredients)
          /\ recipe_worker' = RecipeGoto("insert_instructions")
          /\ NoFault
       \/ /\ recipe_worker.n_ingredients > 0
          /\ recipe_worker' = RecipeRaise("ingredients insert failed")
          /\ UNCHANGED ingredients
          /\ Fault
    /\ UNCHANGED <<recipes, instructions, recipe_queue, scratch>>
    /\ UNCHANGED avars
    /\ UNCHANGED probe
    /\ UNCHANGED call
    /\ UNCHANGED running
    /\ UNCHANGED storage

\* `if mapped_data["instructions"]`: insert them in one call, then return.
RecipeInsertInstructions ==
    /\ RecipeAt("insert_instructions")
    /\ \/ /\ instructions' = RecipeRows(instructions, recipe_worker.recipe_id,
                                        recipe_worker.n_instructions)
          /\ recipe_worker' = RecipeGoto("returned")
          /\ NoFault
       \/ /\ recipe_worker.n_instructions > 0
          /\ recipe_worker' = RecipeRaise("instructions insert failed")
          /\ UNCHANGED instructions
          /\ Fault
    /\ UNCHANGED <<recipes, ingredients, recipe_queue, scratch>>
    /\ UNCHANGED avars
    /\ UNCHANGED probe
    /\ UNCHANGED call
    /\ UNCHANGED running
    /\ UNCHANGED storage

\* Variant of RecipeExcept in which the re-raised exception ends the
\* worker's loop.
RecipeExceptStopsWorker ==
    /\ RecipeAt("except")
    /\ recipes' = update_recipe_status(recipe_worker.recipe_id, "failed")
    /\ recipe_worker' = RecipeGoto("stopped")
    /\ UNCHANGED <<ingredients, instructions, recipe_queue, scratch, faults>>
    /\ UNCHANGED avars
    /\ UNCHANGED probe
    /\ UNCHANGED call
    /\ UNCHANGED running
    /\ UNCHANGED storage

\* except Exception: try to write status "failed" (a failure of that write
\* is logged), then re-raise; process_job logs what it catches.
RecipeExcept ==
    /\ RecipeAt("except")
    /\ \/ /\ recipes' = update_recipe_status(recipe_worker.recipe_id, "failed")
          /\ NoFault
       \/ /\ UNCHANGED recipes
          /\ Fault
    /\ recipe_worker' = RecipeGoto("raised")
    /\ UNCHANGED <<ingredients, instructions, recipe_queue, scratch>>
    /\ UNCHANGED avars
    /\ UNCHANGED probe
    /\ UNCHANGED call
    /\ UNCHANGED running
    /\ UNCHANGED storage

process_recipe_extraction ==
    \/ RecipeSetDownloading \/ RecipeGetHandler \/ RecipeFetchMetadata
    \/ RecipeUpdatePlatform \/ RecipeSetExtracting \/ RecipeMkdtemp
    \/ RecipeDownload \/ RecipeConvert \/ RecipeCleanup \/ RecipeThumbnail
    \/ RecipeSetTranscribing \/ RecipeTranscribe \/ RecipeSetAnalyzing
    \/ RecipeAnalyze \/ RecipeUpdateRecipe \/ RecipeInsertIngredients
    \/ RecipeInsertInstructions \/ RecipeExcept

RecipeNext ==
    \/ \E url \in Urls, user_id \in 0..1, well_formed \in BOOLEAN :
          EnqueueRecipe(url, user_id, well_formed)
    \/ PopRecipe
    \/ process_recipe_extraction

\* The recipe worker alone.
SpecRecipe == Init /\ [][RecipeNext]_vars

\* The recipe worker with payloads of every shape on its list.
PayloadNext ==
    \/ \E url \in {InstagramUrl, OtherUrl} : EnqueueRecipe(url, 1, TRUE)
    \/ \E recipe_id \in 0..MaxJobs, url \in {PyNone, EmptyStr, InstagramUrl},
          user_id \in 0..1 : EnqueuePayload(recipe_id, url, user_id)
    \/ PopRecipe
    \/ process_recipe_extraction

SpecPayloads == Init /\ [][PayloadNext]_vars

\* The recipe worker's loop step by step, with shutdown signals.
WorkerLoop == LoopTest \/ Blpop \/ BlpopTimeout \/ process_recipe_extraction

ShutdownNext ==
    \/ \E url \in Urls, user_id \in 0..1, well_formed \in BOOLEAN :
          EnqueueRecipe(url, user_id, well_formed)
    \/ SignalHandler
    \/ WorkerLoop

\* blpop has a timeout and so has every call of process_recipe_extraction:
\* a worker that can take its next step takes it.
SpecShutdown == Init /\ [][ShutdownNext]_vars /\ WF_vars(WorkerLoop)

\* Both services, each with its own queue and workers, on one host.
AllNext == Next \/ RecipeNext

SpecAll == Init /\ [][AllNext]_vars

\* -------------------------- calls of detect_platform and get_handler
\* Number of tokens of the longest URL passed in, and the number of times
\* detect_platform is called on one argument.
MaxUrlLen == 3
MaxCalls == 2

\* The tokens URLs are made of: those the patterns look for, an upper-case
\* host, ids, blanks and text of no platform.
UrlTokens ==
    {"https://", "www.", "instagram.com/", "INSTAGRAM.COM/", "reel/", "reels/",
     "p/", "tiktok.com/", "@user/", "video/", "vm.", "vt.", "t/",
     "youtube.com/", "shorts/", "youtu.be/", "watch?v=", "facebook.com/",
     "watch/", "fb.watch/", "m.", "story.php", "example.com/", "video.mp4",
     "ABC12345", "ab", "123", " ", "/"}

\* The arguments: None, the ints 0 and 7, and every str of at most
\* MaxUrlLen tokens, the empty str among them.
InitDetect ==
    /\ audio_jobs = <<>>
    /\ audio_files = {}
    /\ thumbnails = {}
    /\ transcriptions = {}
    /\ analyses = {}
    /\ embeddings = {}
    /\ storage = {}
    /\ queue = <<>>
    /\ worker = [w \in Workers |-> IdleWorker]
    /\ scratch = {}
    /\ runs = [j \in JobIds |-> 0]
    /\ faults = 0
    /\ recipes = <<>>
    /\ ingredients = {}
    /\ instructions = {}
    /\ recipe_queue = <<>>
    /\ recipe_worker = IdleRecipeWorker
    /\ \/ probe = NoProbe
       \/ \E n \in {0, 7} : probe = [NoProbe EXCEPT !.url = PyInt(n)]
       \/ \E len \in 0..MaxUrlLen : \E tokens \in [1..len -> UrlTokens] :
             probe = [NoProbe EXCEPT !.url = Str(tokens)]
    /\ call = NoCall
    /\ running = TRUE

\* tag = detect_platform(url)
DetectPlatform ==
    /\ Len(probe.tags) < MaxCalls
    /\ probe' = [probe EXCEPT !.tags = Append(@, detect_platform(probe.url))]
    /\ UNCHANGED <<avars, rvars, storage, scratch, faults, call, running>>

\* handler = platform_router.get_handler(url), or the ValueError it raises
RouterGetHandler ==
    /\ probe.got = <<>>
    /\ probe' = [probe EXCEPT !.got = <<get_handler(probe.url)>>]
    /\ UNCHANGED <<avars, rvars, storage, scratch, faults, call, running>>

\* metadata = platform_router.fetch_metadata(url), or the ValueError it raises
RouterFetchMetadata ==
    /\ probe.fetched = <<>>
    /\ probe' = [probe EXCEPT !.fetched = <<router_fetch_metadata(probe.url)>>]
    /\ UNCHANGED <<avars, rvars, storage, scratch, faults, call, running>>

DetectNext == DetectPlatform \/ RouterGetHandler \/ RouterFetchMetadata

SpecDetect == InitDetect /\ [][DetectNext]_vars

\* ------------------------------------------------ handlers' download_video
\* Largest size in bytes of a downloaded body.
MaxFileSize == 2

\* File names under the temporary directory: the output path itself, which
\* has no extension, and the names yt-dlp derives from it.
Exts == {"mp4", "webm"}
Paths == {""} \cup Exts

\* The temporary directory before the download: made by mkdtemp, empty.
EmptyDisk == [p \in Paths |-> None]

Raised(text, disk) == [raises |-> text, path |-> "", disk |-> disk]
Returned(path, disk) == [raises |-> "", path |-> path, disk |-> disk]

\* What the network and yt-dlp do during one call, per handler.
InstagramEnv ==
    [metadata : {"passed", "passed_no_url", "fetched", "fetched_no_url",
                 "fetch_raises"},
     transfer : {"raises", "ok"},
     body : 0..MaxFileSize]

TikTokEnv ==
    [info : {"raises", "no_url", "ok"},
     ext : Exts,
     transfer : {"raises", "ok"},
     body : 0..MaxFileSize]

YtDlpEnv ==
    [info : {"raises", "ok"},
     ext : Exts,
     files : [Exts -> {None} \cup {Some(n) : n \in 0..MaxFileSize}],
     newest : Exts]

\* audio_processor.download_video: streams the body into output_path.
download_video_from_url(env, disk) ==
    IF env.transfer = "raises"
    THEN Raised("Failed to download video", disk)
    ELSE Returned("", [disk EXCEPT ![""] = Some(env.body)])

\* InstagramHandler.download_video
instagram_download_video(env) ==
    IF env.metadata = "fetch_raises"
    THEN Raised("fetch_metadata", EmptyDisk)
    ELSE IF env.metadata \in {"passed_no_url", "fetched_no_url"}
    THEN Raised("Instagram metadata did not contain a video URL.", EmptyDisk)
    ELSE LET r == download_video_from_url(env, EmptyDisk) IN
         IF r.raises # "" THEN r ELSE Returned("", r.disk)

\* TikTokHandler.download_video
tiktok_download_video(env) ==
    IF env.info = "raises"
    THEN Raised("TikTok download failed", EmptyDisk)
    ELSE IF env.info = "no_url"
    THEN Raised("TikTok download failed", EmptyDisk)
    ELSE IF env.transfer = "raises"
    THEN Raised("TikTok download failed", EmptyDisk)
    ELSE LET target_path == env.ext
             disk == [EmptyDisk EXCEPT ![target_path] = Some(env.body)]
             file_size == disk[target_path][1]
         IN  IF file_size = 0
             THEN Raised("TikTok download failed", disk)
             ELSE Returned(target_path, disk)

\* max(candidates, key=os.path.getmtime)
newest_of(candidates, env) ==
    IF env.newest \in candidates
    THEN env.newest
    ELSE CHOOSE p \in candidates : TRUE

\* YouTubeHandler.download_video
youtube_download_video(env) ==
    IF env.info = "raises"
    THEN Raised("YouTube download failed", EmptyDisk)
    ELSE LET disk == [p \in Paths |-> IF p \in Exts THEN env.files[p] ELSE None]
             candidates == {p \in Exts : disk[p] # None}
         IN  IF disk[env.ext] = None /\ candidates = {}
             THEN Raised("YouTube download failed", disk)
             ELSE LET target_path == IF disk[env.ext] = None
                                     THEN newest_of(candidates, env)
                                     ELSE env.ext
                      file_size == disk[target_path][1]
                  IN  IF file_size = 0
                      THEN Raised("YouTube download failed", disk)
                      ELSE Returned(target_path, disk)

\* FacebookHandler.download_video
facebook_download_video(env) ==
    IF env.info = "raises"
    THEN Raised("Facebook download failed", EmptyDisk)
    ELSE LET disk == [p \in Paths |-> IF p \in Exts THEN env.files[p] ELSE None]
             candidates == {p \in Exts : disk[p] # None}
         IN  IF disk[env.ext] = None /\ candidates = {}
             THEN Raised("Facebook download failed", disk)
             ELSE LET target_path == IF disk[env.ext] = None
                                     THEN newest_of(candidates, env)
                                     ELSE env.ext
                      file_size == disk[target_path][1]
                  IN  IF file_size = 0
                      THEN Raised("Facebook download failed", disk)
                      ELSE Returned(target_path, disk)

\* handler.download_video(url, output_path, metadata), by the handler object.
handler_download_video(handler, env) ==
    CASE handler = "InstagramHandler" -> instagram_download_video(env)
      [] handler = "TikTokHandler" -> tiktok_download_video(env)
      [] handler = "YouTubeHandler" -> youtube_download_video(env)
      [] handler = "FacebookHandler" -> facebook_download_video(env)

\* One call of download_video on each handler, in each environment.
InitDownload ==
    /\ audio_jobs = <<>>
    /\ audio_files = {}
    /\ thumbnails = {}
    /\ transcriptions = {}
    /\ analyses = {}
    /\ embeddings = {}
    /\ storage = {}
    /\ queue = <<>>
    /\ worker = [w \in Workers |-> IdleWorker]
    /\ scratch = {}
    /\ runs = [j \in JobIds |-> 0]
    /\ faults = 0
    /\ recipes = <<>>
    /\ ingredients = {}
    /\ instructions = {}
    /\ recipe_queue = <<>>
    /\ recipe_worker = IdleRecipeWorker
    /\ probe = NoProbe
    /\ running = TRUE
    /\ \/ \E env \in InstagramEnv :
             call = [fn |-> "download_video", handler |-> "InstagramHandler",
                     env |-> env, result |-> <<>>]
       \/ \E env \in TikTokEnv :
             call = [fn |-> "download_video", handler |-> "TikTokHandler",
                     env |-> env, result |-> <<>>]
       \/ \E env \in YtDlpEnv : \E h \in {"YouTubeHandler", "FacebookHandler"} :
             call = [fn |-> "download_video", handler |-> h,
                     env |-> env, result |-> <<>>]

\* downloaded_path = handler.download_video(url, download_target, metadata)
HandlerDownloadVideo ==
    /\ call.fn = "download_video"
    /\ call.result = <<>>
    /\ call' = [call EXCEPT !.result = <<handler_download_video(call.handler, call.env)>>]
    /\ UNCHANGED <<avars, rvars, storage, scratch, faults, probe, running>>

DownloadNext == HandlerDownloadVideo

SpecDownload == InitDownload /\ [][DownloadNext]_vars

\* ------------------------------------------------- storage references
\* Bucket names and object paths as token sequences.  No concatenation of
\* the other tokens spells "supabase://", so the substring occurs in a text
\* exactly where the token does.
MaxPathLen == 3

RefTokens == {"supabase://", "/", "clips", "a1b2", ".mp3"}
BucketNames == {<<"temp-audio">>, <<"thumbnails">>, <<"clips">>}
ObjectPaths == UNION {[1..n -> RefTokens] : n \in 0..MaxPathLen}

\* config.SUPABASE_URL
SUPABASE_URL == <<"https://", "project.supabase.co">>

\* upload_file_to_bucket: the text it returns after the upload.
storage_reference(bucket_name, file_path, is_public) ==
    IF is_public
    THEN SUPABASE_URL \o <<"/storage/v1/object/public/">> \o bucket_name
             \o <<"/">> \o file_path
    ELSE <<"supabase://">> \o bucket_name \o <<"/">> \o file_path

\* text.replace(old, "")
replace_all(text, old) == SelectSeq(text, LAMBDA t : t # old)

\* text.split("/", 1)
split_once(text) ==
    IF \E i \in 1..Len(text) : text[i] = "/"
    THEN LET i == CHOOSE k \in 1..Len(text) :
                      /\ text[k] = "/"
                      /\ \A m \in 1..(k - 1) : text[m] # "/"
         IN  <<SubSeq(text, 1, i - 1), SubSeq(text, i + 1, Len(text))>>
    ELSE <<text>>

\* download_audio_from_url: the download it performs, from a bucket or by
\* an HTTP GET of the text.
download_audio_from_url(audio_url) ==
    LET from_bucket == audio_url # <<>> /\ audio_url[1] = "supabase://"
        parts == split_once(replace_all(audio_url, "supabase://"))
    IN  IF from_bucket /\ Len(parts) = 2
        THEN [kind |-> "bucket", bucket_name |-> parts[1], file_path |-> parts[2]]
        ELSE [kind |-> "http", url |-> audio_url]

\* One upload of each object to each bucket, private or public.
InitStorage ==
    /\ audio_jobs = <<>>
    /\ audio_files = {}
    /\ thumbnails = {}
    /\ transcriptions = {}
    /\ analyses = {}
    /\ embeddings = {}
    /\ storage = {}
    /\ queue = <<>>
    /\ worker = [w \in Workers |-> IdleWorker]
    /\ scratch = {}
    /\ runs = [j \in JobIds |-> 0]
    /\ faults = 0
    /\ recipes = <<>>
    /\ ingredients = {}
    /\ instructions = {}
    /\ recipe_queue = <<>>
    /\ recipe_worker = IdleRecipeWorker
    /\ probe = NoProbe
    /\ running = TRUE
    /\ \E b \in BucketNames : \E f \in ObjectPaths : \E pub \in BOOLEAN :
          call = [fn |-> "upload_file_to_bucket", bucket_name |-> b,
                  file_path |-> f, is_public |-> pub,
                  result |-> <<>>, download |-> <<>>]

\* storage_ref = upload_file_to_bucket(bucket_name, file_path, ...)
UploadFileToBucket ==
    /\ call.fn = "upload_file_to_bucket"
    /\ call.result = <<>>
    /\ call' = [call EXCEPT !.result =
                   <<storage_reference(call.bucket_name, call.file_path,
                                       call.is_public)>>]
    /\ UNCHANGED <<avars, rvars, storage, scratch, faults, probe, running>>

\* audio_bytes = download_audio_from_url(storage_ref)
DownloadAudioFromUrl ==
    /\ call.fn = "upload_file_to_bucket"
    /\ call.result # <<>>
    /\ call.download = <<>>
    /\ call' = [call EXCEPT !.download = <<download_audio_from_url(call.result[1])>>]
    /\ UNCHANGED <<avars, rvars, storage, scratch, faults, probe, running>>

StorageNext == UploadFileToBucket \/ DownloadAudioFromUrl

SpecStorage == InitStorage /\ [][StorageNext]_vars

\* ================================================================ claims
Terminal == {COMPLETED, FAILED}

\* Position of a status in the order of section 4.2 (the enum's order).
Rank(st) == CHOOSE i \in 1..Len(JobStatus) : JobStatus[i] = st

Status(j) == audio_jobs[j].status

Ended(w) == worker[w].pc \in {"returned", "raised"}

\* The job was handed to process_audio_job once (the fresh job of 4.3).
FirstRun(j) == runs[j] = 1

AudioFilesOf(j) == {a \in audio_files : a.job_id = j}

ChildrenOf(table, j) ==
    {r \in table : \E a \in AudioFilesOf(j) : r.audio_file_id = a.id}

C2_Absorbing ==
    [][\A j \in DOMAIN audio_jobs :
          Status(j) \in Terminal => audio_jobs'[j].status = Status(j)]_vars

\* C2 amended: for a job handed to process_audio_job once, COMPLETED and
\* FAILED are final: nothing changes the status after the run wrote it.
C2_AbsorbingFirstRun ==
    [][\A j \in DOMAIN audio_jobs :
          (Status(j) \in Terminal /\ runs[j] <= 1) =>
              audio_jobs'[j].status = Status(j)]_vars

\* A first run has ended and left its job in a terminal status.
C2_Witness ==
    \E w \in Workers :
        /\ Ended(w)
        /\ FirstRun(worker[w].job_id)
        /\ Status(worker[w].job_id) \in Terminal

\* C3: in every state, a job's status is FAILED exactly when its
\* error_message is not null.
C3_FailedIffError ==
    \A j \in DOMAIN audio_jobs :
        Status(j) = FAILED <=> audio_jobs[j].error_message # None

\* C4: every FAILED job carries an error_message that is not empty.
C4_FailedHasMessage ==
    \A j \in DOMAIN audio_jobs :
        Status(j) = FAILED => Truthy(audio_jobs[j].error_message)

\* C5: a COMPLETED job has an audio file row, and that audio file has a
\* transcription, an analysis and an embedding row.
C5_CompletedHasChildren ==
    \A j \in DOMAIN audio_jobs :
        Status(j) = COMPLETED =>
            \E a \in AudioFilesOf(j) :
                /\ \E r \in transcriptions : r.audio_file_id = a.id
                /\ \E r \in analyses : r.audio_file_id = a.id
                /\ \E r \in embeddings : r.audio_file_id = a.id

\* A job is COMPLETED and has no thumbnail row.
C5_Witness ==
    \E j \in DOMAIN audio_jobs :
        /\ Status(j) = COMPLETED
        /\ \A t \in thumbnails : t.job_id # j

C7_TranscriptionFailure ==
    \A w \in Workers :
        LET j == worker[w].job_id IN
        (worker[w].pc = "raised" /\ worker[w].failed_at = "transcribe"
            /\ FirstRun(j)) =>
            /\ Status(j) = FAILED
            /\ \E a \in AudioFilesOf(j) : a.id = worker[w].audio_file_id
            /\ ChildrenOf(transcriptions, j) = {}
            /\ ChildrenOf(analyses, j) = {}
            /\ ChildrenOf(embeddings, j) = {}

\* C8: after a fatal step of a run failed, no step creates a child row for
\* the run's job, the only status written to the job is FAILED, and when
\* the run ends the job is FAILED with the captured error text.
C8_FatalAborts ==
    [][\A w \in Workers :
          LET j == worker[w].job_id IN
          (Running(w) /\ worker[w].failed_at # "") =>
              /\ \A a \in audio_files' \ audio_files : a.job_id # j
              /\ \A t \in thumbnails' \ thumbnails : t.job_id # j
              /\ \A r \in (transcriptions' \ transcriptions)
                            \cup (analyses' \ analyses)
                            \cup (embeddings' \ embeddings) :
                    \A a \in AudioFilesOf(j) : r.audio_file_id # a.id
              /\ audio_jobs'[j].status # Status(j) =>
                    audio_jobs'[j].status = FAILED
              /\ worker'[w].pc = "raised" =>
                    /\ audio_jobs'[j].status = FAILED
                    /\ audio_jobs'[j].error_message = worker[w].e]_vars

\* C9: when a run of process_audio_job ends, by returning or by raising,
\* the job's persisted status is COMPLETED or FAILED.
C9_RunEndsTerminal ==
    [][\A w \in Workers :
          (Running(w) /\ worker'[w].pc \in {"returned", "raised"}) =>
              audio_jobs'[worker[w].job_id].status \in Terminal]_vars

Refused(url) ==
    \/ "raises" \in DOMAIN get_handler(url)
    \/ ~validate_url(detect_platform(url), url)

\* C11: a run of a fresh job whose URL the router cannot resolve, or that is
\* invalid for the selected handler, fetches no metadata, downloads nothing,
\* writes no status after DOWNLOADING except FAILED and creates no child
\* row; with no external call failing it ends with the job FAILED.
C11_FailFast ==
    \A w \in Workers :
        LET j == worker[w].job_id IN
        (worker[w].pc # "idle" /\ FirstRun(j) /\ Refused(worker[w].url)) =>
            /\ worker[w].pc \in {"set_downloading", "get_handler",
                                 "fetch_metadata", "except", "raised"}
            /\ worker[w].failed_at # "fetch_metadata"
            /\ Status(j) \in {PENDING, DOWNLOADING, FAILED}
            /\ AudioFilesOf(j) = {}
            /\ \A t \in thumbnails : t.job_id # j
            /\ (worker[w].pc = "raised" /\ faults = 0) => Status(j) = FAILED

\* C12: every queue item and every run names a job whose record exists, and
\* every created job that no worker has taken yet is in PENDING with an
\* item in the queue.
C12_CreatedIsEnqueued ==
    /\ \A i \in 1..Len(queue) : queue[i].job_id \in DOMAIN audio_jobs
    /\ \A w \in Workers :
          worker[w].pc # "idle" => worker[w].job_id \in DOMAIN audio_jobs
    /\ \A j \in DOMAIN audio_jobs :
          runs[j] = 0 => (Status(j) = PENDING /\ Queued(j))

InQueue(q, j) == \E i \in 1..Len(q) : q[i].job_id = j

\* The workers that a step hands job j to.
Receivers(j) ==
    {w \in DOMAIN worker :
        /\ worker'[w] # worker[w]
        /\ worker'[w].pc = "set_downloading"
        /\ worker'[w].job_id = j}

C14_WorkerGoesOn ==
    /\ \A w \in DOMAIN worker :
          queue # <<>> => ENABLED (Dequeue(w) \/ process_audio_job(w))
    /\ recipe_queue # <<>> => ENABLED (PopRecipe \/ process_recipe_extraction)
    /\ \A w \in DOMAIN worker :
          (worker[w].pc = "raised" /\ queue # <<>>) => ENABLED Dequeue(w)
    /\ (recipe_worker.pc \in {"raised", "bad_json", "invalid_job"}
          /\ recipe_queue # <<>>) => ENABLED PopRecipe

\* A recipe run raised without having recorded the failed status, and the
\* next item waits.
C14_Witness ==
    /\ recipe_worker.pc = "raised"
    /\ recipes[recipe_worker.recipe_id].status # "failed"
    /\ recipe_queue # <<>>

\* The worker has dropped text that is not JSON, and the next item waits.
C14_WitnessBadJson == recipe_worker.pc = "bad_json" /\ recipe_queue # <<>>

\* An audio run raised after a failed stage and a failed write of FAILED,
\* and the next job waits.
C14_WitnessAudio ==
    \E w \in DOMAIN worker :
        /\ worker[w].pc = "raised"
        /\ FirstRun(worker[w].job_id)
        /\ Status(worker[w].job_id) # FAILED
        /\ queue # <<>>

\* C15: with several workers at once, a step of a run of job A writes
\* job A's row only, adds child rows in job A's chain only and stores
\* objects under job A's id only; every object path and every row's path
\* is keyed by the id of the job that owns it.
C15_NoCrossJobWrites ==
    /\ [][\A w \in DOMAIN worker :
            (Running(w) /\ worker'[w] # worker[w]) =>
                LET A == worker[w].job_id IN
                /\ DOMAIN audio_jobs' = DOMAIN audio_jobs
                /\ \A k \in DOMAIN audio_jobs \ {A} : audio_jobs'[k] = audio_jobs[k]
                /\ \A r \in audio_files' \ audio_files : r.job_id = A
                /\ \A r \in thumbnails' \ thumbnails : r.job_id = A
                /\ \A r \in transcriptions' \ transcriptions :
                      \E f \in audio_files' : f.id = r.audio_file_id /\ f.job_id = A
                /\ \A r \in analyses' \ analyses :
                      \E f \in audio_files' : f.id = r.audio_file_id /\ f.job_id = A
                /\ \A r \in embeddings' \ embeddings :
                      \E f \in audio_files' : f.id = r.audio_file_id /\ f.job_id = A
                /\ \A o \in storage' \ storage : o.path.job_id = A]_vars
    /\ [](/\ \A f \in audio_files :
                /\ f.file_path.job_id = f.job_id
                /\ f.supabase_url.path = f.file_path
                /\ StoredObject(f.supabase_url) \in storage
          /\ \A t \in thumbnails :
                /\ t.thumbnail_url.path.job_id = t.job_id
                /\ StoredObject(t.thumbnail_url) \in storage
          /\ \A o \in storage : o.path.job_id \in DOMAIN audio_jobs)

\* Two workers run two different jobs, and each job has stored an object
\* and an audio file row.
C15_Witness ==
    \E v, w \in DOMAIN worker :
        /\ Running(v) /\ Running(w)
        /\ worker[v].job_id # worker[w].job_id
        /\ \A u \in {v, w} :
              /\ \E o \in storage : o.path.job_id = worker[u].job_id
              /\ \E f \in audio_files : f.job_id = worker[u].job_id

\* C16: once a job's (first) run has returned with status COMPLETED,
\* get_job_result_data returns an audio reference that is present and
\* names the uploaded object, the transcript text and language, the
\* analysis summary, topics, sentiment and category the run stored, and
\* an embedding id.
C16_RoundTrip ==
    \A w \in DOMAIN worker :
        LET j == worker[w].job_id IN
        (worker[w].pc = "returned" /\ FirstRun(j) /\ Status(j) = COMPLETED) =>
            LET result == get_job_result_data(j) IN
            /\ result.audio_file # None
            /\ result.audio_file[1].url # None
            /\ result.audio_file[1].url[1].bucket = worker[w].audio_url.bucket
            /\ result.audio_file[1].url[1].path = worker[w].audio_url.path
            /\ result.transcription # None
            /\ result.transcription[1].text = worker[w].transcript_data.text
            /\ result.transcription[1].language # None
            /\ result.transcription[1].language = worker[w].transcript_data.language
            /\ result.analysis # None
            /\ result.analysis[1].summary = worker[w].analysis_data.summary
            /\ result.analysis[1].topics = worker[w].analysis_data.topics
            /\ result.analysis[1].sentiment = worker[w].analysis_data.sentiment
            /\ result.analysis[1].category = worker[w].analysis_data.category
            /\ result.embedding # None
            /\ result.embedding[1].id > 0

\* The same round trip without the audio reference: these fields do come
\* back as stored.
C16_RoundTripButAudioUrl ==
    \A w \in DOMAIN worker :
        LET j == worker[w].job_id IN
        (worker[w].pc = "returned" /\ FirstRun(j) /\ Status(j) = COMPLETED) =>
            LET result == get_job_result_data(j) IN
            /\ result.audio_file # None
            /\ result.transcription # None
            /\ result.transcription[1].text = worker[w].transcript_data.text
            /\ result.transcription[1].language = worker[w].transcript_data.language
            /\ result.analysis # None
            /\ result.analysis[1].summary = worker[w].analysis_data.summary
            /\ result.analysis[1].topics = worker[w].analysis_data.topics
            /\ result.analysis[1].sentiment = worker[w].analysis_data.sentiment
            /\ result.analysis[1].category = worker[w].analysis_data.category
            /\ result.embedding # None

\* C17: the row create_job inserts has an id, status PENDING and no
\* error_message; when a run in which every stage succeeded returns, the
\* job is COMPLETED and its error_message is null.
C17_CreatedThenCompleted ==
    [][/\ Len(audio_jobs') > Len(audio_jobs) =>
             /\ Len(audio_jobs') = Len(audio_jobs) + 1
             /\ Len(audio_jobs') \in JobIds
             /\ audio_jobs'[Len(audio_jobs')].status = PENDING
             /\ audio_jobs'[Len(audio_jobs')].error_message = None
       /\ \A w \in DOMAIN worker :
             (/\ Running(w)
              /\ worker'[w].pc = "returned"
              /\ validate_url(detect_platform(worker[w].url), worker[w].url)
              /\ ~worker[w].thumb_failed) =>
                 /\ audio_jobs'[worker[w].job_id].status = COMPLETED
                 /\ audio_jobs'[worker[w].job_id].error_message = None]_vars

\* The same for the run that follows the creation: this holds.
C17_FreshJob ==
    [][/\ Len(audio_jobs') > Len(audio_jobs) =>
             /\ Len(audio_jobs') = Len(audio_jobs) + 1
             /\ Len(audio_jobs') \in JobIds
             /\ audio_jobs'[Len(audio_jobs')].status = PENDING
             /\ audio_jobs'[Len(audio_jobs')].error_message = None
       /\ \A w \in DOMAIN worker :
             (/\ Running(w)
              /\ worker'[w].pc = "returned"
              /\ validate_url(detect_platform(worker[w].url), worker[w].url)
              /\ FirstRun(worker[w].job_id)) =>
                 /\ audio_jobs'[worker[w].job_id].status = COMPLETED
                 /\ audio_jobs'[worker[w].job_id].error_message = None]_vars

\* C18: get_handler raises the unsupported-platform error exactly when
\* detect_platform gives UNKNOWN for the argument, and returns the handler
\* registered under the detected tag otherwise; every tag but UNKNOWN has a
\* handler.
C18_RouterMapping ==
    /\ DOMAIN handlers = Platform \ {UNKNOWN}
    /\ probe.got # <<>> =>
          LET r == probe.got[1]
              tag == detect_platform(probe.url)
          IN /\ ("raises" \in DOMAIN r /\ r.raises = "Unsupported platform")
                    <=> tag = UNKNOWN
             /\ tag # UNKNOWN =>
                   /\ "handler" \in DOMAIN r
                   /\ r.handler = handlers[tag]
                   /\ tag = INSTAGRAM => r.handler = "InstagramHandler"
                   /\ tag = TIKTOK => r.handler = "TikTokHandler"
                   /\ tag = YOUTUBE => r.handler = "YouTubeHandler"
                   /\ tag = FACEBOOK => r.handler = "FacebookHandler"

\* get_handler returned the Facebook handler.
C18_Witness ==
    /\ probe.got # <<>>
    /\ "handler" \in DOMAIN probe.got[1]
    /\ probe.got[1].handler = "FacebookHandler"

\* get_handler raised for a str that is not empty.
C18_WitnessRaises ==
    /\ probe.got # <<>>
    /\ "raises" \in DOMAIN probe.got[1]
    /\ isinstance_str(probe.url)
    /\ probe.url.s # <<>>

\* Some pattern of some platform is found in the normalised argument.
MatchesPattern(url) ==
    /\ isinstance_str(url)
    /\ \E p \in instagram_patterns \cup tiktok_patterns
                  \cup youtube_patterns \cup facebook_patterns :
          re_search(p, lower(strip(url.s)))

C19_WitnessNonStr == Len(probe.tags) = MaxCalls /\ probe.url = PyInt(7)

\* detect_platform was called twice on a TikTok URL.
C19_WitnessTag == probe.tags = <<TIKTOK, TIKTOK>>

\* C20: when the analysis response is not JSON or lacks a required field,
\* analyze_content raises: the run is in its handler or has raised, no
\* analysis row exists for the run's audio file, and the run ends with the
\* job FAILED.
C20_MalformedIsFatal ==
    \A w \in DOMAIN worker :
        worker[w].analysis_response \in {"malformed", "missing_field"} =>
            /\ worker[w].pc \in {"except", "raised"}
            /\ \A r \in analyses : r.audio_file_id # worker[w].audio_file_id
            /\ worker[w].pc = "raised" /\ FirstRun(worker[w].job_id) =>
                  Status(worker[w].job_id) = FAILED

\* The part that holds: a response that is not JSON makes analyze_content
\* raise, and no analysis row is stored for the run.
C20_NotJsonRaises ==
    \A w \in DOMAIN worker :
        worker[w].analysis_response = "malformed" =>
            /\ worker[w].pc \in {"except", "raised"}
            /\ worker[w].failed_at = "analyze"
            /\ \A r \in analyses : r.audio_file_id # worker[w].audio_file_id

\* The statements of process_audio_job in program order; the handler and
\* the two ways out come last.
StepOrder ==
    <<"set_downloading", "get_handler", "fetch_metadata", "update_metadata",
      "set_extracting", "mkdtemp", "download", "convert", "cleanup",
      "thumb_status", "thumb_upload", "thumb_store", "set_uploading",
      "upload_audio", "store_audio", "set_transcribing", "transcribe",
      "store_transcription", "set_analyzing", "analyze", "store_analysis",
      "set_embeddings", "embed", "store_embedding", "set_storing",
      "set_completed", "except", "returned", "raised">>

PcRank(pc) ==
    IF pc \in {"returned", "raised"} THEN Len(StepOrder)
    ELSE CHOOSE i \in 1..Len(StepOrder) : StepOrder[i] = pc

\* The step is one of worker w inside a run.
StepOf(w) == Running(w) /\ worker'[w] # worker[w]

\* The step adds exactly one row to the table and leaves its rows alone,
\* or leaves the table alone.
GrowsBy(table, table_after, n) ==
    /\ table \subseteq table_after
    /\ Cardinality(table_after) = Cardinality(table) + n

\* C21: no step removes or changes a child row; a step adds at most one
\* row, to one table, at the store statement of that table, and a run
\* passes each statement at most once (its position only moves forward),
\* so a run inserts at most one row of each child kind.
C21_ChildrenWrittenOnce ==
    [][/\ \A w \in DOMAIN worker :
             StepOf(w) => PcRank(worker'[w].pc) > PcRank(worker[w].pc)
       /\ \/ UNCHANGED tables
          \/ \E w \in DOMAIN worker :
                /\ StepOf(w)
                /\ \/ /\ At(w, "store_audio")
                      /\ GrowsBy(audio_files, audio_files', 1)
                      /\ UNCHANGED <<thumbnails, transcriptions, analyses, embeddings>>
                   \/ /\ At(w, "thumb_store")
                      /\ GrowsBy(thumbnails, thumbnails', 1)
                      /\ UNCHANGED <<audio_files, transcriptions, analyses, embeddings>>
                   \/ /\ At(w, "store_transcription")
                      /\ GrowsBy(transcriptions, transcriptions', 1)
                      /\ UNCHANGED <<audio_files, thumbnails, analyses, embeddings>>
                   \/ /\ At(w, "store_analysis")
                      /\ GrowsBy(analyses, analyses', 1)
                      /\ UNCHANGED <<audio_files, thumbnails, transcriptions, embeddings>>
                   \/ /\ At(w, "store_embedding")
                      /\ GrowsBy(embeddings, embeddings', 1)
                      /\ UNCHANGED <<audio_files, thumbnails, transcriptions, analyses>>]_vars

\* A run has returned with a row of each of the five kinds, while rows of
\* an earlier job exist.
C21_Witness ==
    \E w \in DOMAIN worker :
        /\ worker[w].pc = "returned"
        /\ \E t \in thumbnails : t.job_id = worker[w].job_id
        /\ \E r \in embeddings : r.audio_file_id = worker[w].audio_file_id
        /\ \E r \in transcriptions : r.audio_file_id # worker[w].audio_file_id

\* The statement at position `at` of worker w's run completes normally.
Passes(w, at, next) == StepOf(w) /\ At(w, at) /\ worker'[w].pc = next

\* C22: every invocation of process_audio_job, also one for a job that was
\* processed before, starts at the first statement and writes DOWNLOADING
\* whatever the status was, and each of its store statements that
\* completes adds a further row for the job, with an id that no earlier
\* row has, however many rows the job has already.
C22_NotIdempotent ==
    [][\A w \in DOMAIN worker :
          LET j == worker[w].job_id IN
          /\ (~Running(w) /\ worker'[w] # worker[w]) =>
                /\ worker'[w].pc = "set_downloading"
                /\ runs'[worker'[w].job_id] = runs[worker'[w].job_id] + 1
          /\ Passes(w, "set_downloading", "get_handler") =>
                audio_jobs'[j].status = DOWNLOADING
          /\ Passes(w, "store_audio", "set_transcribing") =>
                /\ Cardinality(AudioFilesOf(j)') = Cardinality(AudioFilesOf(j)) + 1
                /\ \A a \in audio_files : a.id # worker'[w].audio_file_id
          /\ Passes(w, "thumb_store", "set_uploading") /\ ~worker'[w].thumb_failed =>
                Cardinality({t \in thumbnails' : t.job_id = j})
                    = Cardinality({t \in thumbnails : t.job_id = j}) + 1
          /\ Passes(w, "store_transcription", "set_analyzing") =>
                Cardinality(ChildrenOf(transcriptions, j)')
                    = Cardinality(ChildrenOf(transcriptions, j)) + 1
          /\ Passes(w, "store_analysis", "set_embeddings") =>
                Cardinality(ChildrenOf(analyses, j)')
                    = Cardinality(ChildrenOf(analyses, j)) + 1
          /\ Passes(w, "store_embedding", "set_storing") =>
                Cardinality(ChildrenOf(embeddings, j)')
                    = Cardinality(ChildrenOf(embeddings, j)) + 1]_vars

\* The second run of a job has returned, and the job has two rows of each
\* child kind.
C22_Witness ==
    \E w \in DOMAIN worker :
        LET j == worker[w].job_id IN
        /\ worker[w].pc = "returned"
        /\ runs[j] = 2
        /\ Cardinality(AudioFilesOf(j)) = 2
        /\ Cardinality({t \in thumbnails : t.job_id = j}) = 2
        /\ Cardinality(ChildrenOf(transcriptions, j)) = 2
        /\ Cardinality(ChildrenOf(analyses, j)) = 2
        /\ Cardinality(ChildrenOf(embeddings, j)) = 2

\* The statements that call an external stage.
ExternalCalls ==
    {"fetch_metadata", "download", "convert", "thumb_upload", "upload_audio",
     "transcribe", "analyze", "embed"}

\* C23: a run never executes a statement twice, so each external stage is
\* called at most once; the step after a failed fatal call leads to the
\* finally clause or the handler and from there out of the function, and
\* after a failure in the thumbnail block the run goes on with the audio
\* upload without entering the block again.
C23_NoRetries ==
    [][\A w \in DOMAIN worker :
          StepOf(w) =>
              /\ worker'[w].pc # worker[w].pc
              /\ \A c \in ExternalCalls :
                    PcRank(worker[w].pc) >= PcRank(c) => worker'[w].pc # c
              /\ (worker[w].failed_at = "" /\ worker'[w].failed_at # "") =>
                    /\ worker'[w].failed_at = worker[w].pc
                    /\ worker'[w].pc \in {"cleanup", "except"}
              /\ worker[w].failed_at # "" =>
                    /\ worker[w].pc \in {"cleanup", "except"}
                    /\ worker'[w].pc \in {"except", "raised"}
                    /\ worker'[w].failed_at = worker[w].failed_at
              /\ (~worker[w].thumb_failed /\ worker'[w].thumb_failed) =>
                    worker'[w].pc = "set_uploading"
              /\ worker[w].thumb_failed =>
                    worker'[w].pc \notin {"thumb_status", "thumb_upload", "thumb_store"}]_vars

\* A run has raised after its thumbnail upload was skipped and its
\* transcription call failed.
C23_Witness ==
    \E w \in DOMAIN worker :
        /\ worker[w].pc = "raised"
        /\ worker[w].thumb_failed
        /\ worker[w].failed_at = "transcribe"

\* C24: PlatformRouter.fetch_metadata validates the URL with the selected
\* handler before delegating: the handler's fetch_metadata is called only for
\* a URL its validate_url accepts, and a URL it rejects yields the invalid-URL
\* error that names the handler's platform.
C24_ValidatesBeforeDelegating ==
    probe.fetched # <<>> =>
        LET r == probe.fetched[1]
            h == get_handler(probe.url)
        IN  /\ r.delegated # <<>> =>
                /\ "handler" \in DOMAIN h
                /\ r.delegated[1] = h.handler
                /\ handler_validate_url(r.delegated[1], probe.url)
                /\ r.raises = ""
            /\ ("handler" \in DOMAIN h /\ ~handler_validate_url(h.handler, probe.url)) =>
                /\ r.delegated = <<>>
                /\ r.raises = "Invalid URL"
                /\ r.platform_name = get_platform_name(h.handler)

\* A URL whose handler is selected and rejects it: the error names Instagram.
C24_Witness ==
    /\ probe.fetched # <<>>
    /\ detect_platform(probe.url) = INSTAGRAM
    /\ ~validate_reel_url(probe.url)
    /\ probe.fetched[1].raises = "Invalid URL"
    /\ probe.fetched[1].platform_name = "Instagram"
    /\ probe.fetched[1].delegated = <<>>

\* A URL the selected handler accepts: the call is delegated to that handler.
C24_WitnessDelegated ==
    /\ probe.fetched # <<>>
    /\ probe.fetched[1].delegated = <<"TikTokHandler">>

\* C25: download_video of every handler either returns the path of a file
\* that exists and is non-empty or fails; it never returns when the file is
\* missing or has size zero.
C25_ReturnsNonEmptyFile ==
    (call.fn = "download_video" /\ call.result # <<>>) =>
        LET r == call.result[1] IN
        r.raises = "" =>
            /\ r.disk[r.path] # None
            /\ r.disk[r.path][1] > 0

\* C25, for the handlers that download with yt-dlp: TikTok, YouTube, Facebook.
C25_YtDlpHandlersCheck ==
    (/\ call.fn = "download_video"
     /\ call.result # <<>>
     /\ call.handler # "InstagramHandler") =>
        LET r == call.result[1] IN
        r.raises = "" =>
            /\ r.disk[r.path] # None
            /\ r.disk[r.path][1] > 0

\* A yt-dlp handler found the file under another extension and returned it.
C25_WitnessFallback ==
    /\ call.fn = "download_video"
    /\ call.result # <<>>
    /\ call.handler = "YouTubeHandler"
    /\ call.result[1].raises = ""
    /\ call.result[1].path # call.env.ext

\* A yt-dlp handler refused an empty file.
C25_WitnessEmptyRefused ==
    /\ call.fn = "download_video"
    /\ call.result # <<>>
    /\ call.handler = "TikTokHandler"
    /\ call.env.info = "ok"
    /\ call.env.transfer = "ok"
    /\ call.env.body = 0
    /\ call.result[1].raises # ""

\* C26: storage references round-trip: a private upload returns
\* supabase://bucket/path, a public upload a public URL, and the private
\* reference parsed by download_audio_from_url is a download of exactly the
\* bucket and path uploaded, for every bucket and path.
C26_RoundTrip ==
    /\ (call.fn = "upload_file_to_bucket" /\ call.result # <<>>) =>
          IF call.is_public
          THEN call.result[1] = SUPABASE_URL \o <<"/storage/v1/object/public/">>
                                    \o call.bucket_name \o <<"/">> \o call.file_path
          ELSE call.result[1] = <<"supabase://">> \o call.bucket_name
                                    \o <<"/">> \o call.file_path
    /\ (/\ call.fn = "upload_file_to_bucket"
        /\ call.result # <<>>
        /\ call.download # <<>>
        /\ ~call.is_public) =>
          call.download[1] = [kind |-> "bucket", bucket_name |-> call.bucket_name,
                              file_path |-> call.file_path]

\* C26, for the paths that do not contain the text "supabase://".
C26_RoundTripOfPlainPaths ==
    (/\ call.fn = "upload_file_to_bucket"
     /\ call.result # <<>>
     /\ call.download # <<>>
     /\ ~call.is_public
     /\ \A i \in 1..Len(call.file_path) : call.file_path[i] # "supabase://") =>
        call.download[1] = [kind |-> "bucket", bucket_name |-> call.bucket_name,
                            file_path |-> call.file_path]

\* A private object under a directory has been uploaded and parsed back.
C26_WitnessPlainPath ==
    /\ call.fn = "upload_file_to_bucket"
    /\ call.download # <<>>
    /\ ~call.is_public
    /\ call.file_path = <<"clips", "/", "a1b2">>
    /\ call.download[1].kind = "bucket"

\* The parse loses the "supabase://" a path contains.
C26_WitnessLossyParse ==
    /\ call.fn = "upload_file_to_bucket"
    /\ call.download # <<>>
    /\ ~call.is_public
    /\ call.file_path = <<"clips", "/", "supabase://">>
    /\ call.download[1].kind = "bucket"
    /\ call.download[1].file_path = <<"clips", "/">>

\* Rows of a recipe in a child table.
RowsOf(table, r) == {row \in table : row.recipe_id = r}

\* The recipe the worker's current or last run is about has every row the
\* run mapped.
MappedRowsStored(r) ==
    recipe_worker.recipe_id = r =>
        /\ Cardinality(RowsOf(ingredients, r)) = recipe_worker.n_ingredients
        /\ Cardinality(RowsOf(instructions, r)) = recipe_worker.n_instructions

C27_CompletedHasRows ==
    \A r \in DOMAIN recipes :
        recipes[r].status = "completed" => MappedRowsStored(r)

C27_NoFailedAfterCompleted ==
    \A r \in DOMAIN recipes :
        recipes[r].status = "completed" => recipes'[r].status = "completed"

\* C27: a recipe whose persisted status is 'completed' has all of its mapped
\* ingredient and instruction rows stored, and 'completed' is final: no run
\* writes 'completed' and afterwards 'failed' for the same recipe.
C27_CompletedIsWholeAndFinal ==
    [][C27_CompletedHasRows /\ C27_NoFailedAfterCompleted]_vars

\* C27, for the runs that return normally: the recipe is 'completed' with
\* every mapped row stored.
C27_ReturnedIsWhole ==
    recipe_worker.pc = "returned" =>
        /\ recipes[recipe_worker.recipe_id].status = "completed"
        /\ MappedRowsStored(recipe_worker.recipe_id)

C27_WitnessReturned ==
    /\ recipe_worker.pc = "returned"
    /\ recipe_worker.n_ingredients = 1
    /\ recipe_worker.n_instructions = 1
    /\ Cardinality(RowsOf(ingredients, recipe_worker.recipe_id)) = 1

\* A run wrote 'completed', failed to insert its rows and wrote 'failed'.
C27_WitnessFailedAfterCompleted ==
    /\ recipe_worker.pc = "raised"
    /\ recipe_worker.failed_at = "insert_ingredients"
    /\ recipes[recipe_worker.recipe_id].status = "failed"
    /\ recipes[recipe_worker.recipe_id].title

\* The handlers whose validate_url accepts a URL.
Accepting(url) == {h \in {handlers[p] : p \in DOMAIN handlers} : handler_validate_url(h, url)}

\* C28: routing and handler validation agree: for every URL that some
\* handler's validate_url accepts, detect_platform returns that handler's
\* tag, so get_handler returns that same handler and does not raise the
\* unsupported-platform error.
C28_RoutingAgreesWithValidation ==
    probe.got # <<>> =>
        \A h \in Accepting(probe.url) :
            /\ detect_platform(probe.url) \in DOMAIN handlers
            /\ handlers[detect_platform(probe.url)] = h
            /\ probe.got[1] = [handler |-> h]

\* C28, for the Instagram, TikTok and Facebook handlers and URLs that only
\* one handler accepts and that carry no other platform's pattern.
C28_OtherHandlersAgree ==
    (/\ probe.got # <<>>
     /\ Cardinality(Accepting(probe.url)) = 1
     /\ "YouTubeHandler" \notin Accepting(probe.url)
     /\ Cardinality({pats \in {instagram_patterns, tiktok_patterns,
                               youtube_patterns, facebook_patterns} :
                        \E pat \in pats : re_search(pat, lower(strip(probe.url.s)))}) <= 1) =>
        \A h \in Accepting(probe.url) : probe.got[1] = [handler |-> h]

\* The watch URL YouTubeHandler accepts and detect_platform does not know.
\* A URL one handler accepts and the router hands to that handler.
C28_WitnessAgree ==
    /\ probe.got # <<>>
    /\ Accepting(probe.url) = {"TikTokHandler"}
    /\ probe.got[1] = [handler |-> "TikTokHandler"]

C28_WitnessWatchUrl ==
    /\ probe.got # <<>>
    /\ probe.url = Str(<<"youtube.com/", "watch?v=", "ABC12345">>)
    /\ youtube_validate_url(probe.url)
    /\ probe.got[1] = [raises |-> "Unsupported platform"]

\* A step of the recipe worker that takes an item off the list.
Popped == Len(recipe_queue') < Len(recipe_queue)

\* The popped item went through json.loads and, if it is JSON, process_job.
Handled ==
    recipe_worker'.pc = IF ~Head(recipe_queue).json THEN "bad_json"
                        ELSE IF ~ValidJob(Head(recipe_queue)) THEN "invalid_job"
                        ELSE "set_downloading"

\* C29: once a shutdown signal has set running to false, the recipe worker
\* pops no further item from the queue, and every item it has popped is
\* handed to process_job: no popped item is dropped because of shutdown.
C29_NoPopAfterShutdown ==
    [][/\ ~running => ~Popped
       /\ Popped => Handled]_vars

\* C29, as far as the loop goes: after the signal the worker does not enter
\* blpop again, a pop after the signal is the return of the blpop that was
\* in progress when the signal arrived, and every popped item is handled.
C29_NoNewBlpopAfterShutdown ==
    [][/\ (~running /\ recipe_worker'.pc = "blpop") => recipe_worker.pc = "blpop"
       /\ (~running /\ Popped) => recipe_worker.pc = "blpop"
       /\ Popped => Handled]_vars

\* C29: after the signal the worker leaves its loop.
C29_ExitsLoop == ~running ~> recipe_worker.pc = "exited"

\* The signal arrived while blpop was waiting, and an item is on the list.
C29_WitnessLatePop ==
    /\ ~running
    /\ recipe_worker.pc = "blpop"
    /\ recipe_queue # <<>>

\* The worker has left its loop with an item still on the list.
C29_WitnessExited ==
    /\ recipe_worker.pc = "exited"
    /\ recipe_queue # <<>>

\* The payload lacks recipe_id, url or user_id.
Lacks(item) == item.recipe_id = 0 \/ ~PyTruthy(item.url) \/ item.user_id = 0

\* The rows of the recipe tables are what they were.
RecipeRecordsKept ==
    /\ \A r \in DOMAIN recipes : r \in DOMAIN recipes' /\ recipes'[r] = recipes[r]
    /\ ingredients' = ingredients
    /\ instructions' = instructions

\* C30: a queue item that lacks any of recipe_id, url or user_id is
\* discarded without calling process_recipe_extraction and without any write
\* to the recipe record, whose status is left unchanged; the next thing the
\* worker does is to pop the next item.
C30_InvalidItemDiscarded ==
    [][/\ (Len(recipe_queue') < Len(recipe_queue)
              /\ Head(recipe_queue).json /\ Lacks(Head(recipe_queue))) =>
          /\ recipe_worker'.pc = "invalid_job"
          /\ RecipeRecordsKept
       /\ recipe_worker.pc = "invalid_job" =>
          /\ RecipeRecordsKept
          /\ recipe_worker' # recipe_worker =>
                Len(recipe_queue') < Len(recipe_queue)]_vars

\* C30: after an invalid item the worker can take the next one.
C30_WorkerContinues ==
    (recipe_worker.pc = "invalid_job" /\ recipe_queue # <<>>) =>
        /\ ENABLED PopRecipe
        /\ ~ENABLED process_recipe_extraction

\* An item naming an existing recipe but no url was dropped; the recipe is
\* still pending and another item waits.
C30_Witness ==
    /\ recipe_worker.pc = "invalid_job"
    /\ recipes # <<>>
    /\ \A r \in DOMAIN recipes : recipes[r].status = "pending"
    /\ recipe_queue # <<>>
    /\ Lacks(Head(recipe_queue))
    /\ Head(recipe_queue).recipe_id # 0
    /\ Head(recipe_queue).user_id # 0

====
